---- MODULE Spec2Model ----
(***************************************************************************)
(* pymodelserve: the model supervisor (core/manager.py), its named-pipe    *)
(* channel (core/ipc.py) and the worker loop (core/client.py).             *)
(*                                                                         *)
(* One ModelManager is driven by host threads; every Start creates one     *)
(* NamedPipeServer and spawns one worker process, both numbered by the     *)
(* order of creation (1, 2, ...).  Blocking calls (open of a FIFO,         *)
(* readline) are steps that are enabled only when the call can return.     *)
(***************************************************************************)
EXTENDS Naturals, Sequences, FiniteSets, TLC

\* Bound: the number of NamedPipeServer / worker pairs one run may create.
MaxStarts == 2

\* Bound: the number of calls of public methods the host threads make in one run.
MaxCalls == 3

\* Host threads that may call the manager's public methods.
Callers == {1, 2}
\* The single host thread of the sequential specifications.
SeqCallers == {1}

Ids == 1..MaxStarts

\* Bound: the number of model names the host registers.
MaxNames == 2

\* The model names, in no particular order.
Names == 1..MaxNames

\* Bound: the number of calls of registry methods in one run.
MaxRegCalls == 5

\* Bound: the number of probes (calls of check_one) the monitor makes in one run.
MaxProbes == 3

\* Bound: the largest max_failures a HealthChecker is configured with.
MaxFailures == 2

\* HealthChecker.__init__: the default of max_failures.
DefaultMaxFailures == 3
\* Python's None for the handles self._ipc and self._process.
None == 0

\* Handler names a host sends with request(): one the worker registers, one it does not.
Handlers == {"echo", "nosuch"}

NoFrame == [message |-> "", tag |-> 0]
NoReply == [status |-> "", error |-> "", tag |-> 0, traceback |-> FALSE, available |-> {}]

VARIABLES
    mgr,       \* ModelManager: _is_started, _ipc, _process
    nstart,    \* number of NamedPipeServer / Popen objects created so far
    ncalls,    \* number of public-method calls made so far
    srv,       \* srv[k]: NamedPipeServer k (temp dir, the two file objects, _is_connected)
    wrk,       \* wrk[k]: worker process k (ModelClient.run position, its pipe ends)
    fifo_in,   \* fifo_in[k]: frames written to pipe_in of channel k, not yet read
    fifo_out,  \* fifo_out[k]: frames written to pipe_out of channel k, not yet read
    pc,        \* pc[t]: where host thread t is inside a manager method
    op,        \* op[t]: the public method thread t called last
    loc,       \* loc[t]: locals of that call
    res,       \* res[t]: what the last finished call returned or raised
    hc,        \* HealthChecker: its settings, its _status record, where check_all is
    reg,       \* ModelRegistry: _managers, _configs, and the call in progress
    cls,       \* a ModelClient subclass: the methods it declares, its _handlers
    scan,      \* discover_models: the directory tree, the arguments, the result
    io         \* the worker's stdout and stderr pipes and ModelManager._stderr_output

vars == <<mgr, nstart, ncalls, srv, wrk, fifo_in, fifo_out, pc, op, loc, res, hc, reg, cls,
          scan, io>>

\* What the supervisor, the worker and the monitor leave alone.
ext == <<reg, cls, scan, io>>

\* Bound: the number of lines a pipe holds before a write to it blocks.
PipeCapacity == 2

\* Bound: the number of lines the worker writes to stderr.
MaxLines == 21

\* ModelManager.request: the number of captured lines it quotes, _stderr_output[-20:].
StderrTail == 20

\* The pipes Popen made for the worker self._process names, by the number of lines
\* written to each and not yet read, and the length of self._stderr_output: nothing
\* written, nothing captured.
NewIo == [stdout |-> 0, stderr |-> 0, stderr_output |-> 0]

----------------------------------------------------------------------------
(* core/ipc.py: NamedPipeServer *)

\* NamedPipeServer.__init__: nothing set up.
NewServer == [dir |-> FALSE, pipe_in |-> FALSE, pipe_out |-> FALSE, is_connected |-> FALSE]

\* NamedPipeServer.setup: temp dir and both FIFOs exist, nothing open.
SetupServer == [dir |-> TRUE, pipe_in |-> FALSE, pipe_out |-> FALSE, is_connected |-> FALSE]

\* close() that closes the two file objects and forgets TemporaryDirectory.cleanup().
CloseLeaveDir(s) == [dir |-> s.dir, pipe_in |-> FALSE, pipe_out |-> FALSE,
                     is_connected |-> FALSE]

\* NamedPipeServer.close: both file objects closed, temp dir removed, config dropped.
Close(s) == [dir |-> FALSE, pipe_in |-> FALSE, pipe_out |-> FALSE, is_connected |-> FALSE]

----------------------------------------------------------------------------
(* core/client.py: the worker *)

\* _discover_handlers: one method the class declares.  name is the attribute name,
\* rank its place in the sorted listing of dir(self), annotated the name given to
\* @handler ("" when the method is not decorated), prefixed the rest of the name
\* after "handle_" ("" when the name has no such prefix), impl the function.
Method(name, rank, annotated, prefixed, impl) ==
    [name |-> name, rank |-> rank, annotated |-> annotated, prefixed |-> prefixed,
     impl |-> impl]

\* ModelClient's own public callables that _discover_handlers registers: the names
\* that start with handle_.  (get_handlers, run, setup and teardown are visited
\* and register nothing.)
BuiltinMessage == Method("handle_message", 3, "", "message", "handle_message")
BuiltinPing == Method("handle_ping", 4, "", "ping", "builtin_ping")
BuiltinShutdown == Method("handle_shutdown", 5, "", "shutdown", "builtin_shutdown")
BaseMethods == {BuiltinMessage, BuiltinPing, BuiltinShutdown}

\* getattr(self, name) for every name of dir(self): a method the subclass declares
\* under a name of the base class replaces the inherited one.
Attributes(declared) ==
    declared \cup {b \in BaseMethods : \A d \in declared : d.name # b.name}

\* The name one method is registered under: the decorator's name first, else the
\* handle_ prefix; "" when it is no handler.
HandlerName(m) == IF m.annotated # "" THEN m.annotated ELSE m.prefixed

\* self._handlers[handler_name] = method: a later registration of a name replaces
\* an earlier one.
Registered(table, m) ==
    IF HandlerName(m) = ""
    THEN table
    ELSE [h \in DOMAIN table \cup {HandlerName(m)} |->
             IF h = HandlerName(m) THEN m.impl ELSE table[h]]

\* The loop of _discover_handlers over dir(self), which is sorted by name: the
\* table after the attributes of rank <= n have been visited.
RECURSIVE DiscoverUpTo(_, _)
DiscoverUpTo(attrs, n) ==
    IF n = 0
    THEN [h \in {} |-> ""]
    ELSE LET before == DiscoverUpTo(attrs, n - 1)
             here == {m \in attrs : m.rank = n}
         IN IF here = {} THEN before ELSE Registered(before, CHOOSE m \in here : TRUE)

\* Bound: the number of places in the sorted listing of dir(self) that hold a
\* handler: check, echo, handle_message, handle_ping, handle_shutdown,
\* my_ping, predict, stop.
Ranks == 8

\* ModelClient._discover_handlers for a class that declares the given methods.
DiscoverHandlers(declared) == DiscoverUpTo(Attributes(declared), Ranks)

\* The client class the workers of the supervisor run: ModelClient plus a method
\* echo decorated with @handler("echo").
EchoClass == {Method("echo", 2, "echo", "", "user_echo")}

\* get_handlers() of that class.
WorkerHandlers == DOMAIN DiscoverHandlers(EchoClass)

\* Methods a subclass may declare, by their place in dir(self): "check" (decorated
\* with @handler("ping")) sorts before the handle_ names, "my_ping" (decorated
\* with @handler("ping")), "predict" and "stop" (decorated with
\* @handler("shutdown")) sort after them; handle_ping and handle_shutdown
\* redefine the inherited methods.
Declarable ==
    { Method("check", 1, "ping", "", "user_check"),
      Method("echo", 2, "echo", "", "user_echo"),
      Method("handle_ping", 4, "", "ping", "user_handle_ping"),
      Method("handle_shutdown", 5, "", "shutdown", "user_handle_shutdown"),
      Method("my_ping", 6, "ping", "", "user_my_ping"),
      Method("predict", 7, "classify", "", "user_predict"),
      Method("stop", 8, "shutdown", "", "user_stop") }

\* The subclasses of ModelClient the model looks at.
Classes == SUBSET Declarable

\* A class before an instance of it is made.
NewClass(declared) ==
    [declared |-> declared, handlers |-> [h \in {} |-> ""], discovered |-> FALSE]

\* ModelClient.__init__: self._handlers = {} and _discover_handlers().
Construct ==
    /\ ~cls.discovered
    /\ cls' = [cls EXCEPT !.handlers = DiscoverHandlers(cls.declared),
                          !.discovered = TRUE]
    /\ UNCHANGED <<mgr, nstart, ncalls, srv, wrk, fifo_in, fifo_out, pc, op, loc, res,
                   hc, reg, scan, io>>

\* su and td count the calls of setup() and teardown() this process has made.
NewWorker == [st |-> "none", pc |-> "none", rd |-> FALSE, wr |-> FALSE,
              cur |-> NoFrame, ponged |-> FALSE, su |-> 0, td |-> 0]

\* subprocess.Popen returned: the interpreter is loading the client module.
SpawnedWorker == [st |-> "alive", pc |-> "boot", rd |-> FALSE, wr |-> FALSE,
                  cur |-> NoFrame, ponged |-> FALSE, su |-> 0, td |-> 0]

\* A process that is gone: the kernel has closed its pipe ends.
Dead(w, how) == [st |-> how, pc |-> "dead", rd |-> FALSE, wr |-> FALSE,
                 cur |-> NoFrame, ponged |-> w.ponged, su |-> w.su, td |-> w.td]

Alive(k) == wrk[k].st = "alive"

\* A reply frame: traceback says whether the key "traceback" is there (with the
\* text of format_exc()), available is the list under "available_handlers".
Reply(status, error, tag, traceback, available) ==
    [status |-> status, error |-> error, tag |-> tag, traceback |-> traceback,
     available |-> available]

\* The except branches of handle_message: TypeError is answered with "Handler
\* argument error: ..." and no traceback, any other Exception with str(e) and the
\* traceback.
HandlerRaised(f, outcome) ==
    IF outcome = "raise_type_error"
    THEN Reply("", "Handler argument error", f.tag, FALSE, {})
    ELSE Reply("", "handler raised", f.tag, TRUE, {})

\* The outcomes of a handler call that end in an except branch of handle_message.
Raises == {"raise", "raise_type_error"}

\* The reply to a message the table has no handler for, without the handler list.
UnknownBare(f) == Reply("", "Unknown message type", f.tag, FALSE, {})

\* The reply to a message the table has no handler for.
Unknown(f) == Reply("", "Unknown message type", f.tag, FALSE, WorkerHandlers)

\* ModelClient.handle_message: the reply to one request frame.  outcome is what the
\* handler found in the table does: "ok" it returns, "raise" it raises an
\* Exception other than TypeError, "raise_type_error" it raises TypeError.
HandleMessage(f, outcome) ==
    CASE f.message \notin WorkerHandlers -> Unknown(f)
      [] f.message = "shutdown" -> Reply("shutting_down", "", f.tag, FALSE, {})
      [] outcome \in Raises -> HandlerRaised(f, outcome)
      [] f.message = "ping" -> Reply("pong", "", f.tag, FALSE, {})
      [] OTHER -> Reply("", "", f.tag, FALSE, {})

\* A client that opens pipe_out first.
ClientFirstOpenOut == "open_out"

\* NamedPipeClient.connect, its first open: pipe_in for reading ("open_in": the
\* worker is inside that open).
ClientFirstOpen == "open_in"

\* NamedPipeClient.connect, its second open: the other FIFO.
ClientSecondOpen == IF ClientFirstOpen = "open_in" THEN "open_out" ELSE "open_in"

\* The interpreter reaches ModelClient.run and blocks in NamedPipeClient.connect.
W_Boot(k) ==
    /\ Alive(k) /\ wrk[k].pc = "boot"
    /\ wrk' = [wrk EXCEPT ![k].pc = ClientFirstOpen]
    /\ UNCHANGED <<hc, ext, mgr, nstart, ncalls, srv, fifo_in, fifo_out, pc, op, loc, res>>

\* python -m <module> fails before run() opens a pipe (module missing, import error,
\* PYMODELSERVE_PIPE_DIR unset): the process exits.
W_BootFail(k) ==
    /\ Alive(k) /\ wrk[k].pc = "boot"
    /\ wrk' = [wrk EXCEPT ![k] = Dead(@, "exited")]
    /\ UNCHANGED <<hc, ext, mgr, nstart, ncalls, srv, fifo_in, fifo_out, pc, op, loc, res>>

\* setup() returns; _running = True; the loop is entered.
W_Setup(k) ==
    /\ Alive(k) /\ wrk[k].pc = "setup"
    /\ wrk' = [wrk EXCEPT ![k].pc = "recv", ![k].su = @ + 1]
    /\ UNCHANGED <<hc, ext, mgr, nstart, ncalls, srv, fifo_in, fifo_out, pc, op, loc, res>>

\* setup() raises: except -> sys.exit(1), the finally block runs teardown().
W_SetupFail(k) ==
    /\ Alive(k) /\ wrk[k].pc = "setup"
    /\ wrk' = [wrk EXCEPT ![k].pc = "teardown", ![k].su = @ + 1]
    /\ UNCHANGED <<hc, ext, mgr, nstart, ncalls, srv, fifo_in, fifo_out, pc, op, loc, res>>

\* NamedPipeClient.receive returns a frame.
W_Recv(k) ==
    /\ Alive(k) /\ wrk[k].pc = "recv"
    /\ fifo_in[k] # <<>>
    /\ wrk' = [wrk EXCEPT ![k].pc = "handle", ![k].cur = Head(fifo_in[k])]
    /\ fifo_in' = [fifo_in EXCEPT ![k] = Tail(@)]
    /\ UNCHANGED <<hc, ext, mgr, nstart, ncalls, srv, fifo_out, pc, op, loc, res>>

\* NamedPipeClient.receive returns None: the supervisor closed its write end.
W_Eof(k) ==
    /\ Alive(k) /\ wrk[k].pc = "recv"
    /\ fifo_in[k] = <<>>
    /\ ~srv[k].pipe_in
    /\ wrk' = [wrk EXCEPT ![k].pc = "teardown"]
    /\ UNCHANGED <<hc, ext, mgr, nstart, ncalls, srv, fifo_in, fifo_out, pc, op, loc, res>>

\* A loop that ignores the running flag and always goes back to receive().
AfterReplyKeepReading(f) == "recv"

\* The test of "while self._running" after the reply is sent: handle_shutdown has
\* set _running = False, every other handler of the class has left it True.
AfterReply(f) == IF f.message = "shutdown" THEN "teardown" ELSE "recv"

\* A finally block that does not call teardown().
NotTornDown(w) == w

\* The finally block of run(): teardown() is called, whatever it raises is logged.
TornDown(w) == [w EXCEPT !.td = @ + 1]

\* handle_message, then NamedPipeClient.send.  A write with no reader left raises
\* BrokenPipeError, which run() turns into sys.exit(1).
W_HandleWith(k, outcome) ==
    /\ Alive(k) /\ wrk[k].pc = "handle"
    /\ LET r == HandleMessage(wrk[k].cur, outcome) IN
       IF srv[k].pipe_out
       THEN /\ fifo_out' = [fifo_out EXCEPT ![k] = Append(@, r)]
            /\ wrk' = [wrk EXCEPT
                         ![k].pc = AfterReply(wrk[k].cur),
                         ![k].cur = NoFrame,
                         ![k].ponged = @ \/ r.status = "pong"]
       ELSE /\ fifo_out' = fifo_out
            /\ wrk' = [wrk EXCEPT ![k].pc = "teardown", ![k].cur = NoFrame]
    /\ UNCHANGED <<hc, ext, mgr, nstart, ncalls, srv, fifo_in, pc, op, loc, res>>

\* The worker answers a frame; the handler it finds may return or raise.
W_Handle(k) == \E outcome \in {"ok"} \cup Raises : W_HandleWith(k, outcome)

\* The handler found in the table returns a value json.dumps cannot encode (send
\* raises TypeError, which run() turns into sys.exit(1)), or it raises SystemExit
\* or KeyboardInterrupt, which handle_message does not catch: no reply is written
\* and the finally block runs.  The built-in handlers do neither.
W_HandleNoReply(k) ==
    /\ Alive(k) /\ wrk[k].pc = "handle"
    /\ wrk[k].cur.message \in WorkerHandlers \ {"ping", "shutdown"}
    /\ wrk' = [wrk EXCEPT ![k].pc = "teardown", ![k].cur = NoFrame]
    /\ UNCHANGED <<hc, ext, mgr, nstart, ncalls, srv, fifo_in, fifo_out, pc, op, loc, res>>

\* The worker answers a frame with a handler that returns.
W_Serve(k) == W_HandleWith(k, "ok")

\* teardown() returns or raises, the pipe ends are closed, the process exits.
W_Teardown(k) ==
    /\ Alive(k) /\ wrk[k].pc = "teardown"
    /\ wrk' = [wrk EXCEPT ![k] = Dead(TornDown(@), "exited")]
    /\ UNCHANGED <<hc, ext, mgr, nstart, ncalls, srv, fifo_in, fifo_out, pc, op, loc, res>>

\* User code never returns: the module import, setup(), a handler or teardown().
W_Hang(k) ==
    /\ Alive(k) /\ wrk[k].pc \in {"boot", "setup", "handle", "teardown"}
    /\ wrk' = [wrk EXCEPT ![k].pc = "hung",
                          ![k].su = IF wrk[k].pc = "setup" THEN @ + 1 ELSE @,
                          ![k].td = IF wrk[k].pc = "teardown" THEN @ + 1 ELSE @]
    /\ UNCHANGED <<hc, ext, mgr, nstart, ncalls, srv, fifo_in, fifo_out, pc, op, loc, res>>

\* The worker is killed from outside (kill -9, OOM killer).
Kill(k) ==
    /\ Alive(k)
    /\ wrk' = [wrk EXCEPT ![k] = Dead(@, "killed")]
    /\ UNCHANGED <<hc, ext, mgr, nstart, ncalls, srv, fifo_in, fifo_out, pc, op, loc, res>>

\* The first worker, serving a running supervisor, is killed from outside.
Crash(k) ==
    /\ k = 1
    /\ mgr.is_started /\ mgr.process = k /\ wrk[k].ponged
    /\ Kill(k)

\* The streams of the worker that Popen connected to pipes.
Streams == {"stdout", "stderr"}

\* A handler of the subclass reaches a print() or a logging call: the next thing
\* the process does is the write of that line.
W_Print(k, stream) ==
    /\ Alive(k) /\ wrk[k].pc = "handle"
    /\ wrk[k].cur.message \in WorkerHandlers \ {"ping", "shutdown"}
    /\ stream = "stderr" => io.stderr + io.stderr_output < MaxLines
    /\ wrk' = [wrk EXCEPT ![k].pc = stream]
    /\ UNCHANGED <<hc, ext, mgr, nstart, ncalls, srv, fifo_in, fifo_out, pc, op, loc, res>>

\* The write of the line: it returns when the pipe has room and blocks until then.
W_Write(k) ==
    /\ Alive(k) /\ wrk[k].pc \in Streams
    /\ io[wrk[k].pc] < PipeCapacity
    /\ io' = [io EXCEPT ![wrk[k].pc] = @ + 1]
    /\ wrk' = [wrk EXCEPT ![k].pc = "handle"]
    /\ UNCHANGED <<hc, reg, cls, scan, mgr, nstart, ncalls, srv, fifo_in, fifo_out, pc, op,
                   loc, res>>

\* What a worker whose handlers write to stdout and stderr does besides.
WorkerWrites(k) ==
    \/ \E stream \in Streams : W_Print(k, stream)
    \/ W_Write(k)

\* The first worker, serving a running supervisor, stops answering: the process
\* stays alive and the frame it has read gets no reply.
Stall(k) ==
    /\ k = 1
    /\ mgr.is_started /\ mgr.process = k /\ wrk[k].ponged
    /\ wrk[k].pc = "handle"
    /\ W_Hang(k)

\* What the worker process does when it is scheduled.
WorkerRun(k) ==
    \/ W_Boot(k)
    \/ W_Setup(k)
    \/ W_Recv(k)
    \/ W_Eof(k)
    \/ W_Handle(k)
    \/ W_Teardown(k)

\* What may happen to it: failures of user code and of the host.
WorkerFault(k) ==
    \/ W_BootFail(k)
    \/ W_SetupFail(k)
    \/ W_HandleNoReply(k)
    \/ W_Hang(k)
    \/ Kill(k)

----------------------------------------------------------------------------
(* core/manager.py: ModelManager *)

\* ModelManager.__init__.
NewManager == [is_started |-> FALSE, ipc |-> None, process |-> None]

\* is_running without the poll() of the process handle.
IsRunningNoPoll == mgr.is_started /\ mgr.process # None

\* ModelManager.is_running: started, a process handle, and poll() is None.
IsRunning == mgr.is_started /\ mgr.process # None /\ Alive(mgr.process)

\* ModelManager._cleanup, the manager's own fields.
CleanupMgr == [is_started |-> FALSE, ipc |-> None, process |-> None]

\* ModelManager._cleanup: the fields are reset and the channel object, if any, is closed.
Cleanup ==
    /\ mgr' = CleanupMgr
    /\ srv' = IF mgr.ipc = None THEN srv ELSE [srv EXCEPT ![mgr.ipc] = Close(@)]

\* Results of a finished call: a return value or the exception raised.
Result(kind, reply, msg) == [kind |-> kind, reply |-> reply, msg |-> msg]
NoResult == Result("none", NoReply, "")
Ok == Result("ok", NoReply, "")
Raised(kind, msg) == Result(kind, NoReply, msg)

\* The exceptions of core/ipc.py that derive from IPCError.
IPCErrors == {"PipeNotConnectedError", "IPCError"}

\* request() that hands every reply back, an error envelope too.
RequestReturnAsIs(reply) == Result("return", reply, "")

\* ModelManager.request, after self._ipc.request returned the reply: an `error` key
\* raises ModelRequestError with its text, anything else is returned as it is.
RequestReturn(reply) ==
    IF reply.error # ""
    THEN Raised("ModelRequestError", reply.error)
    ELSE Result("return", reply, "")

\* ModelManager.request, when self._ipc.request raised: only IPCError is translated.
RequestRaise(exc) ==
    IF exc \in IPCErrors
    THEN Raised("ModelRequestError", "IPC error")
    ELSE Raised(exc, "")

\* ModelManager.ping around self.request: the status decides, any exception is False.
PingResult(r) ==
    IF r.kind = "return" /\ r.reply.status = "pong"
    THEN Result("true", NoReply, "")
    ELSE Result("false", NoReply, "")

\* ModelManager.start, the check of the first ping's reply.
IsPong(reply) == reply.status = "pong"

NewLocals == [ctx |-> "", msg |-> "", cur |-> None, spawned |-> None,
              snap |-> [is_started |-> FALSE, ipc |-> None, process |-> None,
                        running |-> FALSE]]

\* The manager as the caller finds it when it enters a public method.
Snapshot == [is_started |-> mgr.is_started, ipc |-> mgr.ipc, process |-> mgr.process,
             running |-> IsRunning]

\* The call of thread t ends with result r.
Return(t, r) ==
    /\ pc' = [pc EXCEPT ![t] = "idle"]
    /\ res' = [res EXCEPT ![t] = r]

\* The result r of request() as the public method in progress hands it on: ping()
\* wraps request(), request() itself returns or raises r.
Outer(inPing, r) == IF inPing THEN PingResult(r) ELSE r

\* self._ipc.request(...) ended, in a request() that answers every failure with
\* _cleanup() before it raises.
AfterIpcCleanup(t, exc, reply) ==
    CASE loc[t].ctx = "start" ->
           IF exc = "" /\ IsPong(reply)
           THEN Return(t, Ok) /\ UNCHANGED <<mgr, srv>>
           ELSE Cleanup /\ Return(t, Raised("ModelStartupError", "ping"))
      [] loc[t].ctx = "stop" ->
           /\ pc' = [pc EXCEPT ![t] = "stop_wait"]
           /\ UNCHANGED <<mgr, srv, res>>
      [] OTHER ->
           LET r == IF exc = "" THEN RequestReturn(reply) ELSE RequestRaise(exc) IN
           /\ Return(t, Outer(op[t] = "ping", r))
           /\ IF r.kind = "return" THEN UNCHANGED <<mgr, srv>> ELSE Cleanup

\* self._ipc.request(...) of thread t ended, with exception exc or (exc = "") with
\* reply: what the calling method does next.
\*   start:   a pong ends Start; anything else is _cleanup and ModelStartupError
\*   stop:    reply or exception, on to the wait for the process
\*   request: RequestReturn / RequestRaise
AfterIpc(t, exc, reply) ==
    CASE loc[t].ctx = "start" ->
           IF exc = "" /\ IsPong(reply)
           THEN Return(t, Ok) /\ UNCHANGED <<mgr, srv>>
           ELSE Cleanup /\ Return(t, Raised("ModelStartupError", "ping"))
      [] loc[t].ctx = "stop" ->
           /\ pc' = [pc EXCEPT ![t] = "stop_wait"]
           /\ UNCHANGED <<mgr, srv, res>>
      [] OTHER ->
           /\ Return(t, Outer(op[t] = "ping",
                              IF exc = "" THEN RequestReturn(reply) ELSE RequestRaise(exc)))
           /\ UNCHANGED <<mgr, srv>>

\* Thread t is inside HealthChecker.check_all.
InCheckAll(t) == hc.thread = t /\ hc.phase # "idle"

\* Thread t, not inside a method, calls the public method o.
Called(t, o) ==
    /\ pc[t] = "idle"
    /\ ~InCheckAll(t)
    /\ ncalls < MaxCalls
    /\ ncalls' = ncalls + 1
    /\ op' = [op EXCEPT ![t] = o]

\* start() without its guard: it always goes on to spawn.
AlreadyStartedNever == FALSE

\* ModelManager.start, the guard `if self._is_started: return`.
AlreadyStarted == mgr.is_started

\* ModelManager.stop, the guard `if not self._is_started: return`.
NothingToStop == ~mgr.is_started

\* What becomes of the manager when run_module raises: start() has no handler
\* around the call, so self._ipc keeps the NamedPipeServer made just before and
\* self._process is not assigned.
SpawnFailed(m, k) == [m EXCEPT !.ipc = k]

\* The exception start() raises when subprocess.Popen fails: Popen's own OSError
\* (FileNotFoundError, PermissionError) passes through.
SpawnError == Raised("OSError", "spawn failed")

\* ModelManager.start up to the start of the stderr thread: the no-op on a started
\* manager, else the venv check, NamedPipeServer.setup and VenvManager.run_module.
\* outcome is what the host's file system makes of it: "spawned" the worker
\* process is created, "no_venv" the venv directory or its interpreter is not
\* there, "popen_fails" subprocess.Popen raises (interpreter not executable,
\* model directory gone).
StartWith(t, outcome) ==
    /\ IF pc[t] = "idle"
       THEN Called(t, "start")
       ELSE pc[t] = "restart_start" /\ op' = op /\ ncalls' = ncalls
    /\ AlreadyStarted \/ nstart < MaxStarts
    /\ IF AlreadyStarted
       THEN /\ pc' = [pc EXCEPT ![t] = "idle"]
            /\ res' = [res EXCEPT ![t] = Ok]
            /\ loc' = [loc EXCEPT ![t].snap = IF pc[t] = "idle" THEN Snapshot ELSE @]
            /\ UNCHANGED <<mgr, nstart, srv, wrk>>
       ELSE IF outcome = "no_venv"
       THEN /\ Return(t, Raised("ModelStartupError", "venv not found"))
            /\ loc' = [loc EXCEPT ![t].snap = IF pc[t] = "idle" THEN Snapshot ELSE @,
                                  ![t].spawned = None, ![t].ctx = "start"]
            /\ UNCHANGED <<mgr, nstart, srv, wrk>>
       ELSE IF outcome = "popen_fails"
       THEN LET k == nstart + 1 IN
            /\ nstart' = k
            /\ mgr' = SpawnFailed(mgr, k)
            /\ srv' = [srv EXCEPT ![k] = SetupServer]
            /\ Return(t, SpawnError)
            /\ loc' = [loc EXCEPT ![t].snap = IF pc[t] = "idle" THEN Snapshot ELSE @,
                                  ![t].spawned = k, ![t].ctx = "start"]
            /\ UNCHANGED wrk
       ELSE LET k == nstart + 1 IN
            /\ nstart' = k
            /\ mgr' = [mgr EXCEPT !.ipc = k, !.process = k]
            /\ srv' = [srv EXCEPT ![k] = SetupServer]
            /\ wrk' = [wrk EXCEPT ![k] = SpawnedWorker]
            /\ pc' = [pc EXCEPT ![t] = "connect_in"]
            /\ loc' = [loc EXCEPT ![t].snap = IF pc[t] = "idle" THEN Snapshot ELSE @,
                                  ![t].spawned = k, ![t].ctx = "start",
                                  ![t].msg = "ping", ![t].cur = None]
            /\ res' = [res EXCEPT ![t] = NoResult]
    /\ io' = IF ~AlreadyStarted /\ outcome = "spawned" THEN NewIo ELSE io
    /\ UNCHANGED <<hc, reg, cls, scan, fifo_in, fifo_out>>

\* start() on a host where the worker process can be created.
StartEnter(t) == StartWith(t, "spawned")

\* start() on a host where it cannot: no venv, or Popen fails.
StartFault(t) == \E outcome \in {"no_venv", "popen_fails"} : StartWith(t, outcome)

\* self._ipc.connect(), first open: pipe_in for writing.  The open returns when the
\* worker has pipe_in open for reading (NamedPipeClient.connect, first open).
ConnectIn(t) ==
    /\ pc[t] = "connect_in"
    /\ LET k == mgr.ipc IN
       IF k = None \/ ~srv[k].dir
       THEN /\ Cleanup
            /\ Return(t, Raised("ModelStartupError", "connect"))
            /\ UNCHANGED <<wrk, loc>>
       ELSE /\ Alive(k) /\ wrk[k].pc = "open_in"
            /\ srv' = [srv EXCEPT ![k].pipe_in = TRUE]
            /\ wrk' = [wrk EXCEPT ![k].rd = TRUE, ![k].pc = ClientSecondOpen]
            /\ pc' = [pc EXCEPT ![t] = "connect_out"]
            /\ loc' = [loc EXCEPT ![t].cur = k]
            /\ UNCHANGED <<mgr, res>>
    /\ UNCHANGED <<hc, ext, nstart, ncalls, fifo_in, fifo_out, op>>

\* self._ipc.connect(), second open: pipe_out for reading, which returns when the
\* worker has pipe_out open for writing; then _is_connected and _is_started are set.
ConnectOut(t) ==
    /\ pc[t] = "connect_out"
    /\ LET k == loc[t].cur IN
       /\ Alive(k) /\ wrk[k].pc = "open_out"
       /\ srv' = [srv EXCEPT ![k].pipe_out = TRUE, ![k].is_connected = TRUE]
       /\ wrk' = [wrk EXCEPT ![k].wr = TRUE, ![k].pc = "setup"]
    /\ mgr' = [mgr EXCEPT !.is_started = TRUE]
    /\ pc' = [pc EXCEPT ![t] = "send"]
    /\ UNCHANGED <<hc, ext, nstart, ncalls, fifo_in, fifo_out, op, loc, res>>

\* self._ipc.request(message, data), the send half: NamedPipeServer.send on the
\* object self._ipc names now.
IpcSend(t) ==
    /\ pc[t] = "send"
    /\ LET k == mgr.ipc
           exc == CASE k = None -> "AttributeError"
                    [] ~srv[k].is_connected \/ ~srv[k].pipe_in -> "PipeNotConnectedError"
                    [] ~wrk[k].rd -> "BrokenPipeError"
                    [] OTHER -> ""
       IN
       IF exc = ""
       THEN /\ fifo_in' = [fifo_in EXCEPT
                             ![k] = Append(@, [message |-> loc[t].msg, tag |-> t])]
            /\ pc' = [pc EXCEPT ![t] = "recv"]
            /\ loc' = [loc EXCEPT ![t].cur = k]
            /\ UNCHANGED <<mgr, srv, res>>
       ELSE /\ AfterIpc(t, exc, NoReply)
            /\ UNCHANGED <<fifo_in, loc>>
    /\ UNCHANGED <<hc, ext, nstart, ncalls, wrk, fifo_out, op>>

\* self._ipc.request(message, data), the receive half: NamedPipeServer.receive.
\* readline returns a line when one is there, "" when no writer is left, and
\* blocks otherwise.
IpcRecv(t) ==
    /\ pc[t] = "recv"
    /\ LET k == loc[t].cur IN
       IF ~srv[k].is_connected \/ ~srv[k].pipe_out
       THEN AfterIpc(t, "PipeNotConnectedError", NoReply) /\ UNCHANGED fifo_out
       ELSE IF fifo_out[k] # <<>>
       THEN /\ AfterIpc(t, "", Head(fifo_out[k]))
            /\ fifo_out' = [fifo_out EXCEPT ![k] = Tail(@)]
       ELSE /\ ~wrk[k].wr
            /\ AfterIpc(t, "IPCError", NoReply)
            /\ UNCHANGED fifo_out
    /\ UNCHANGED <<hc, ext, nstart, ncalls, wrk, fifo_in, op, loc>>

\* self._stderr_output.append(line).
Appended(n) == n + 1

\* ModelManager._read_stderr, one round of its loop in the thread start() made: a
\* line is read from the worker's stderr pipe and appended to _stderr_output.
ReadStderr ==
    /\ io.stderr > 0
    /\ io' = [io EXCEPT !.stderr = @ - 1, !.stderr_output = Appended(@)]
    /\ UNCHANGED <<hc, reg, cls, scan, mgr, nstart, ncalls, srv, wrk, fifo_in, fifo_out, pc,
                   op, loc, res>>

\* stop() that gives up after the first wait and leaves the process as it is.
TerminateNoKill(w) == w

\* process.terminate(), wait(2.0) and, if that expires too, process.kill().
Terminate(w) == Dead(w, "terminated")

\* ModelManager.stop returned: restart() goes on to start().
FinishStop(t) ==
    IF op[t] = "restart"
    THEN pc' = [pc EXCEPT ![t] = "restart_start"] /\ res' = res
    ELSE Return(t, Ok)

\* ModelManager.stop up to the shutdown request, called as method o (stop itself, or
\* restart, whose first statement is self.stop()).
StopBody(t, o) ==
    /\ IF NothingToStop
       THEN /\ pc' = [pc EXCEPT ![t] = IF o = "restart" THEN "restart_start" ELSE "idle"]
            /\ res' = [res EXCEPT ![t] = IF o = "restart" THEN NoResult ELSE Ok]
            /\ loc' = [loc EXCEPT ![t].snap = Snapshot]
       ELSE /\ pc' = [pc EXCEPT ![t] = IF mgr.ipc # None /\ IsRunning
                                       THEN "send" ELSE "stop_wait"]
            /\ res' = [res EXCEPT ![t] = NoResult]
            /\ loc' = [loc EXCEPT ![t].snap = Snapshot, ![t].ctx = "stop",
                                  ![t].msg = "shutdown", ![t].cur = None]
    /\ UNCHANGED <<ext, mgr, nstart, srv, wrk, fifo_in, fifo_out>>

\* A host thread calls stop(), or restart(), which begins with self.stop().
StopBegin(t, o) == Called(t, o) /\ StopBody(t, o) /\ UNCHANGED hc

StopEnter(t) == StopBegin(t, "stop")

\* ModelManager.restart: stop(), then start().
RestartEnter(t) == nstart < MaxStarts /\ StopBegin(t, "restart")

\* ModelManager.stop from the wait for the process to _cleanup.  wait(timeout)
\* returns at once for a process that is gone; for one still alive the timeout
\* expires and the process is terminated.
StopWait(t) ==
    /\ pc[t] = "stop_wait"
    /\ LET p == mgr.process IN
       wrk' = IF p # None /\ Alive(p) THEN [wrk EXCEPT ![p] = Terminate(@)] ELSE wrk
    /\ Cleanup
    /\ FinishStop(t)
    /\ UNCHANGED <<hc, ext, nstart, ncalls, fifo_in, fifo_out, op, loc>>

\* ModelManager.request, the checks before the channel is used.
RequestChecks(t, inPing) ==
    /\ IF ~mgr.is_started
       THEN Return(t, Outer(inPing, Raised("ModelNotStartedError", "not started")))
       ELSE IF ~IsRunning
       THEN Return(t, Outer(inPing, Raised("ModelRequestError", "process died")))
       ELSE IF mgr.ipc = None
       THEN Return(t, Outer(inPing, Raised("ModelNotStartedError", "no ipc")))
       ELSE pc' = [pc EXCEPT ![t] = "send"] /\ res' = [res EXCEPT ![t] = NoResult]
    /\ UNCHANGED <<mgr, nstart, srv, wrk, fifo_in, fifo_out>>

\* A host thread calls request(handler).
RequestEnter(t) ==
    /\ Called(t, "request")
    /\ \E h \in Handlers :
         loc' = [loc EXCEPT ![t].snap = Snapshot, ![t].ctx = "request",
                            ![t].msg = h, ![t].cur = None]
    /\ RequestChecks(t, FALSE)
    /\ UNCHANGED <<hc, ext>>

\* ModelManager.ping: False unless is_running, else self.request("ping", {}).
PingBody(t) ==
    /\ loc' = [loc EXCEPT ![t].snap = Snapshot, ![t].ctx = "request",
                          ![t].msg = "ping", ![t].cur = None]
    /\ IF ~IsRunning
       THEN Return(t, Result("false", NoReply, ""))
       ELSE pc' = [pc EXCEPT ![t] = "ping_request"] /\ res' = [res EXCEPT ![t] = NoResult]
    /\ UNCHANGED <<ext, mgr, nstart, srv, wrk, fifo_in, fifo_out>>

\* A host thread calls ping().
PingEnter(t) == Called(t, "ping") /\ PingBody(t) /\ UNCHANGED hc

\* self.request("ping", {}) inside ping(): the checks of request().
PingRequest(t) ==
    /\ pc[t] = "ping_request"
    /\ RequestChecks(t, TRUE)
    /\ UNCHANGED <<hc, ext, ncalls, op, loc>>

----------------------------------------------------------------------------
(* discovery/finder.py: ModelRegistry *)

\* The state of the program outside the registry.
core == <<mgr, nstart, ncalls, srv, wrk, fifo_in, fifo_out, pc, op, loc, res, hc, cls,
          scan, io>>

\* A ModelManager held by the registry, by what its methods leave behind: the
\* started flag, whether it holds a channel (with its pipe directory) and a
\* process handle, and the worker process it spawned last.
NewSup == [is_started |-> FALSE, ipc |-> FALSE, process |-> FALSE, worker |-> "none"]

\* ModelManager.is_running.
SupIsRunning(s) == s.is_started /\ s.process /\ s.worker = "alive"

\* ModelManager.start when it goes through: the worker answered the first ping.
SupStarted(s) == [is_started |-> TRUE, ipc |-> TRUE, process |-> TRUE, worker |-> "alive"]

\* ModelManager.start when it raises ModelStartupError: _cleanup drops channel and
\* handle; the worker it spawned has exited (w = "dead") or is left alive.
SupStartFailed(s, w) == [is_started |-> FALSE, ipc |-> FALSE, process |-> FALSE, worker |-> w]

\* ModelManager.start: a no-op on a started manager, else one of its outcomes:
\* "ok", or "dead" / "alive" for a failure that leaves the worker so.
SupStart(s, outcome) ==
    IF s.is_started THEN s
    ELSE IF outcome = "ok" THEN SupStarted(s)
    ELSE SupStartFailed(s, outcome)

\* What start() hands its caller: None, or the exception.
SupStartResult(s, outcome) ==
    IF s.is_started \/ outcome = "ok" THEN "None" ELSE "ModelStartupError"

StartOutcomes == {"ok", "dead", "alive"}

\* ModelManager.stop: a no-op on a manager that is not started, else the worker is
\* made to exit and _cleanup drops channel and handle.
SupStop(s) ==
    IF ~s.is_started THEN s
    ELSE [is_started |-> FALSE, ipc |-> FALSE, process |-> FALSE,
          worker |-> IF s.worker = "alive" THEN "dead" ELSE s.worker]

\* No registry call in progress.
NoCall == [op |-> "none", pos |-> 0, size |-> 0,
           results |-> [n \in Names |-> "absent"],
           attempts |-> <<>>, skipped |-> {}]

\* Bound: the number of register / unregister calls a second thread makes.
MaxWriterCalls == 1

\* A second thread that calls register and unregister: where it is inside the
\* call ("idle", "register_configs": before `self._configs[name] = config`,
\* "unregister_configs": before `del self._configs[name]`), the name, its calls.
NoWriter == [pc |-> "idle", name |-> 0, calls |-> 0]

\* ModelRegistry.__init__: both maps empty.  managers is the key order of
\* _managers, sup[n] the ModelManager stored (or stored last) under n, call the
\* start_all in progress, last what the last finished call returned or raised.
NewRegistry ==
    [managers |-> <<>>, configs |-> {}, sup |-> [n \in Names |-> NewSup],
     call |-> NoCall, ncalls |-> 0, writer |-> NoWriter,
     last |-> [op |-> "none", name |-> 0, kind |-> "none", results |-> NoCall.results,
               attempts |-> <<>>, skipped |-> {}]]

Keys(seq) == {seq[i] : i \in 1..Len(seq)}

\* A key order with the key n deleted.
Without(seq, n) == SelectSeq(seq, LAMBDA m : m # n)

\* A registry method is called: none is in progress and the run has room for it.
RegCalled ==
    /\ reg.call.op = "none"
    /\ reg.ncalls < MaxRegCalls

\* What a finished call leaves in `last`.
Done(o, n, kind) ==
    [op |-> o, name |-> n, kind |-> kind, results |-> NoCall.results,
     attempts |-> <<>>, skipped |-> {}]

\* ModelRegistry.register(name, config=...).
Register(n) ==
    /\ RegCalled
    /\ reg' = IF n \in Keys(reg.managers)
              THEN [reg EXCEPT !.ncalls = @ + 1, !.last = Done("register", n, "ValueError")]
              ELSE [reg EXCEPT !.ncalls = @ + 1,
                               !.managers = Append(@, n),
                               !.configs = @ \cup {n},
                               !.sup[n] = NewSup,
                               !.last = Done("register", n, "ok")]
    /\ UNCHANGED core

\* unregister() that deletes the entries and leaves the manager as it is.
UnregisterStopNever(s) == s

\* ModelRegistry.unregister, what it does to the manager: stop() if it is running.
UnregisterStop(s) == IF SupIsRunning(s) THEN SupStop(s) ELSE s

\* ModelRegistry.unregister(name).
Unregister(n) ==
    /\ RegCalled
    /\ reg' = IF n \notin Keys(reg.managers)
              THEN [reg EXCEPT !.ncalls = @ + 1, !.last = Done("unregister", n, "KeyError")]
              ELSE [reg EXCEPT !.ncalls = @ + 1,
                               !.sup[n] = UnregisterStop(@),
                               !.managers = Without(@, n),
                               !.configs = @ \ {n},
                               !.last = Done("unregister", n, "ok")]
    /\ UNCHANGED core

\* ModelRegistry.start(name): get(name).start().
RegStart(n) ==
    /\ RegCalled
    /\ \E outcome \in StartOutcomes :
         reg' = IF n \notin Keys(reg.managers)
                THEN [reg EXCEPT !.ncalls = @ + 1, !.last = Done("start", n, "KeyError")]
                ELSE [reg EXCEPT !.ncalls = @ + 1,
                                 !.sup[n] = SupStart(@, outcome),
                                 !.last = Done("start", n,
                                               SupStartResult(reg.sup[n], outcome))]
    /\ UNCHANGED core

\* ModelRegistry.stop(name): get(name).stop().
RegStop(n) ==
    /\ RegCalled
    /\ reg' = IF n \notin Keys(reg.managers)
              THEN [reg EXCEPT !.ncalls = @ + 1, !.last = Done("stop", n, "KeyError")]
              ELSE [reg EXCEPT !.ncalls = @ + 1,
                               !.sup[n] = SupStop(@),
                               !.last = Done("stop", n, "None")]
    /\ UNCHANGED core

\* ModelRegistry.stop_all: stop() on every manager that is running.
StopAll ==
    /\ RegCalled
    /\ reg' = [reg EXCEPT !.ncalls = @ + 1,
                          !.sup = [n \in Names |->
                                     IF n \in Keys(reg.managers) /\ SupIsRunning(reg.sup[n])
                                     THEN SupStop(reg.sup[n]) ELSE reg.sup[n]],
                          !.last = Done("stop_all", 0, "None")]
    /\ UNCHANGED core

\* ModelRegistry.start_all is called: results = {}, the loop is at the first key.
StartAllBegin ==
    /\ RegCalled
    /\ reg' = [reg EXCEPT !.ncalls = @ + 1,
                          !.call = [NoCall EXCEPT !.op = "start_all", !.pos = 1,
                                                  !.size = Len(reg.managers)]]
    /\ UNCHANGED core

\* The iterator over self._managers.items() finds, at its next step, that the
\* dict has not the size it had when the iteration began.
IterChanged == Len(reg.managers) # reg.call.size

\* The dict iterator raises "dictionary changed size during iteration": the
\* for statement is outside every try, the call in progress raises RuntimeError.
IterRaise ==
    reg' = [reg EXCEPT !.call = NoCall,
                       !.last = Done(reg.call.op, 0, "RuntimeError")]

\* A start_all whose loop ends at the first start() that raises.
NextPosAbort(pos, result) == IF result = "None" THEN pos + 1 ELSE MaxNames + 1

\* start_all: the loop goes on to the next key, whatever start() did: the
\* exception is caught inside the loop body.
NextPos(pos, result) == pos + 1

\* start_all, one turn of the loop: start() unless the manager is running, and
\* the entry of results.
StartAllStep ==
    /\ reg.call.op = "start_all"
    /\ IterChanged \/ reg.call.pos <= Len(reg.managers)
    /\ LET n == reg.managers[reg.call.pos]
           s == reg.sup[n] IN
       IF IterChanged
       THEN IterRaise
       ELSE IF SupIsRunning(s)
       THEN reg' = [reg EXCEPT !.call.results[n] = "None",
                               !.call.skipped = @ \cup {n},
                               !.call.pos = NextPos(@, "None")]
       ELSE \E outcome \in StartOutcomes :
              LET result == SupStartResult(s, outcome) IN
              reg' = [reg EXCEPT !.sup[n] = SupStart(@, outcome),
                                 !.call.results[n] = result,
                                 !.call.attempts = Append(@, n),
                                 !.call.pos = NextPos(@, result)]
    /\ UNCHANGED core

\* start_all: the loop is over, results is returned.
StartAllEnd ==
    /\ reg.call.op = "start_all"
    /\ ~IterChanged
    /\ reg.call.pos > Len(reg.managers)
    /\ reg' = [reg EXCEPT !.call = NoCall,
                          !.last = [op |-> "start_all", name |-> 0, kind |-> "return",
                                    results |-> reg.call.results,
                                    attempts |-> reg.call.attempts,
                                    skipped |-> reg.call.skipped]]
    /\ UNCHANGED core

\* The worker of a registered manager is killed from outside.
SupKilled(n) ==
    /\ reg.sup[n].worker = "alive"
    /\ reg' = [reg EXCEPT !.sup[n].worker = "dead"]
    /\ UNCHANGED core

\* One thread uses the registry.
RegistryStep ==
    \/ \E n \in Names : Register(n) \/ Unregister(n) \/ RegStart(n) \/ RegStop(n)
    \/ StartAllBegin
    \/ StartAllStep
    \/ StartAllEnd

\* ModelRegistry.status is called: the dict comprehension begins at the first key.
StatusBegin ==
    /\ RegCalled
    /\ reg' = [reg EXCEPT !.ncalls = @ + 1,
                          !.call = [NoCall EXCEPT !.op = "status", !.pos = 1,
                                                  !.size = Len(reg.managers)]]
    /\ UNCHANGED core

\* status, one turn of the comprehension: manager.is_running and two reads of
\* self._configs[name], which raise KeyError when the name is not a key there.
StatusStep ==
    /\ reg.call.op = "status"
    /\ IterChanged \/ reg.call.pos <= Len(reg.managers)
    /\ IF IterChanged
       THEN IterRaise
       ELSE LET n == reg.managers[reg.call.pos] IN
            IF n \in reg.configs
            THEN reg' = [reg EXCEPT !.call.results[n] = "status",
                                    !.call.pos = @ + 1]
            ELSE reg' = [reg EXCEPT !.call = NoCall,
                                    !.last = Done("status", n, "KeyError")]
    /\ UNCHANGED core

\* status: the comprehension is over, the dict is returned.
StatusEnd ==
    /\ reg.call.op = "status"
    /\ ~IterChanged
    /\ reg.call.pos > Len(reg.managers)
    /\ reg' = [reg EXCEPT !.call = NoCall,
                          !.last = [Done("status", 0, "return") EXCEPT
                                       !.results = reg.call.results]]
    /\ UNCHANGED core

\* The second thread may call: it is in no call and has calls left.
WriterCalled ==
    /\ reg.writer.pc = "idle"
    /\ reg.writer.calls < MaxWriterCalls

\* register(name, config) in the second thread, up to `self._managers[name] = manager`.
WriterRegister(n) ==
    /\ WriterCalled
    /\ n \notin Keys(reg.managers)
    /\ reg' = [reg EXCEPT !.managers = Append(@, n),
                          !.sup[n] = NewSup,
                          !.writer = [pc |-> "register_configs", name |-> n,
                                      calls |-> @.calls + 1]]
    /\ UNCHANGED core

\* unregister(name) in the second thread, up to `del self._managers[name]`.
WriterUnregister(n) ==
    /\ WriterCalled
    /\ n \in Keys(reg.managers)
    /\ reg' = [reg EXCEPT !.sup[n] = UnregisterStop(@),
                          !.managers = Without(@, n),
                          !.writer = [pc |-> "unregister_configs", name |-> n,
                                      calls |-> @.calls + 1]]
    /\ UNCHANGED core

\* The second thread's call goes on: `self._configs[name] = config`, or
\* `del self._configs[name]`.
WriterConfigs ==
    /\ reg.writer.pc # "idle"
    /\ reg' = [reg EXCEPT !.configs = IF reg.writer.pc = "register_configs"
                                      THEN @ \cup {reg.writer.name}
                                      ELSE @ \ {reg.writer.name},
                          !.writer.pc = "idle"]
    /\ UNCHANGED core

\* What the second thread does.
WriterStep ==
    \/ \E n \in Names : WriterRegister(n) \/ WriterUnregister(n)
    \/ WriterConfigs

----------------------------------------------------------------------------
(* health/checker.py: HealthChecker over the one ModelManager *)

\* HealthStatus of a name that has never been probed: no entry in _status.
NoStatus == [present |-> FALSE, healthy |-> FALSE, consecutive_failures |-> 0,
             last_error |-> ""]

\* Bound: the number of monitoring threads one HealthChecker creates in one run.
MaxLoops == 2

\* Bound: the number of calls of HealthChecker.start and stop in one run.
MaxMonCalls == 5

LoopIds == 1..MaxLoops

\* HealthChecker.__init__, the part start() and stop() work on: _running,
\* _stop_event, _thread (None or the number of the thread), and where each thread
\* created so far is inside _monitoring_loop ("none": not created).  joining says
\* that the caller of stop() is inside join(); calls counts start() and stop().
NewBackground ==
    [running |-> FALSE, stop_event |-> FALSE, thread |-> None, joining |-> FALSE,
     loops |-> [i \in LoopIds |-> "none"], calls |-> 0]

\* HealthChecker.__init__ with max_failures = mf and auto_restart = ar, both
\* callbacks given; check_all runs in thread t.  seen is what the last call of
\* get_status found in the record.  The fields after `status` are
\* history: numbers of probes made, of failed probes, of failed probes since the
\* last successful probe or successful restart, of on_failure calls, the
\* consecutive_failures on_failure saw last, the failed probes that left the
\* count at max_failures or more with auto_restart on, the calls of restart(),
\* those that returned, and the calls of on_restart.
NewChecker(t, mf, ar) ==
    [thread |-> t, max_failures |-> mf, auto_restart |-> ar, phase |-> "idle",
     status |-> NoStatus, seen |-> NoStatus, bg |-> NewBackground,
     probes |-> 0, failed |-> 0, since |-> 0, on_failure |-> 0, reported |-> 0,
     crossings |-> 0, restarts |-> 0, restarts_ok |-> 0, on_restart |-> 0]

\* A check_one that reports every probe as healthy.
CheckOneAlwaysHealthy(r) == [healthy |-> TRUE, error |-> ""]

\* HealthChecker.check_one: the HealthCheckResult for what manager.ping() gave (an
\* exception out of ping() would be unhealthy with the exception's text).
CheckOneResult(r) ==
    [healthy |-> r.kind = "true",
     error |-> IF r.kind = "true" THEN ""
               ELSE IF r.kind = "false" THEN "Ping failed" ELSE r.kind]

\* on_failure handed the count as it was before this probe.
OnFailureArgStale(old, new) == old.consecutive_failures

\* The consecutive_failures of the status object on_failure is called with: the
\* object is the one just updated.
OnFailureArg(old, new) == new.consecutive_failures

\* An update that counts failed probes and never starts again from 0.
ProbedNoReset(st, result) ==
    [present |-> TRUE,
     healthy |-> result.healthy,
     consecutive_failures |-> IF result.healthy THEN st.consecutive_failures
                              ELSE st.consecutive_failures + 1,
     last_error |-> IF result.healthy THEN "" ELSE result.error]

\* check_all, the update of the status record by one probe result.
Probed(st, result) ==
    [present |-> TRUE,
     healthy |-> result.healthy,
     consecutive_failures |-> IF result.healthy THEN 0 ELSE st.consecutive_failures + 1,
     last_error |-> IF result.healthy THEN "" ELSE result.error]

\* The restart test without the auto_restart switch.
ShouldRestartAlways(st) == st.consecutive_failures >= hc.max_failures

\* check_all: `if self.auto_restart and status.consecutive_failures >= self.max_failures`.
ShouldRestart(st) == hc.auto_restart /\ st.consecutive_failures >= hc.max_failures

\* _restart_model that leaves the count alone after restart() returned.
RestartedKeepCount(st) == [st EXCEPT !.healthy = TRUE]

\* _restart_model after manager.restart() returned: the count is reset.
Restarted(st) == [st EXCEPT !.consecutive_failures = 0, !.healthy = TRUE]

\* _restart_model that treats a restart() that raised like one that returned.
RestartReturnedAlways(r) == TRUE

\* manager.restart() came back without raising.
RestartReturned(r) == r.kind = "ok"

\* check_all reaches a manager: check_one calls manager.ping().
CheckOne(t) ==
    /\ hc.thread = t /\ hc.phase = "idle"
    /\ pc[t] = "idle"
    /\ hc.probes < MaxProbes
    /\ op' = [op EXCEPT ![t] = "ping"]
    /\ ncalls' = ncalls
    /\ PingBody(t)
    /\ hc' = [hc EXCEPT !.phase = "probing", !.probes = @ + 1]

\* manager.ping() is back: check_one builds the result, check_all updates the
\* status record and, for a failed probe, calls on_failure and decides on a restart.
HcRecord(t) ==
    /\ hc.thread = t /\ hc.phase = "probing"
    /\ pc[t] = "idle"
    /\ LET result == CheckOneResult(res[t])
           old == IF hc.status.present THEN hc.status
                  ELSE [NoStatus EXCEPT !.present = TRUE, !.healthy = TRUE]
           new == Probed(old, result)
           since == IF result.healthy THEN 0 ELSE hc.since + 1
       IN
       hc' = IF result.healthy
             THEN [hc EXCEPT !.status = new, !.since = 0, !.phase = "idle"]
             ELSE [hc EXCEPT
                     !.status = new,
                     !.since = since,
                     !.failed = @ + 1,
                     !.on_failure = @ + 1,
                     !.reported = OnFailureArg(old, new),
                     !.crossings = IF hc.auto_restart /\ since >= hc.max_failures
                                   THEN @ + 1 ELSE @,
                     !.phase = IF ShouldRestart(new) THEN "restart_due" ELSE "idle"]
    /\ UNCHANGED <<ext, mgr, nstart, ncalls, srv, wrk, fifo_in, fifo_out, pc, op, loc, res>>

\* check_all calls _restart_model, which calls manager.restart().
HcRestart(t) ==
    /\ hc.thread = t /\ hc.phase = "restart_due"
    /\ pc[t] = "idle"
    /\ nstart < MaxStarts
    /\ op' = [op EXCEPT ![t] = "restart"]
    /\ ncalls' = ncalls
    /\ StopBody(t, "restart")
    /\ hc' = [hc EXCEPT !.phase = "restarting", !.restarts = @ + 1]

\* manager.restart() is back: on a normal return the count is reset and on_restart
\* is called; an exception is logged and nothing else is done.
HcAfterRestart(t) ==
    /\ hc.thread = t /\ hc.phase = "restarting"
    /\ pc[t] = "idle"
    /\ hc' = IF RestartReturned(res[t])
             THEN [hc EXCEPT !.status = Restarted(@), !.since = 0,
                             !.restarts_ok = @ + 1, !.on_restart = @ + 1,
                             !.phase = "idle"]
             ELSE [hc EXCEPT !.phase = "idle"]
    /\ UNCHANGED <<ext, mgr, nstart, ncalls, srv, wrk, fifo_in, fifo_out, pc, op, loc, res>>

\* check_all after check_one, its statements up to `status.healthy = result.healthy`:
\* the record is created if it is not there, and healthy is assigned.
HcSetHealthy(t) ==
    /\ hc.thread = t /\ hc.phase = "probing"
    /\ pc[t] = "idle"
    /\ LET result == CheckOneResult(res[t])
           old == IF hc.status.present THEN hc.status
                  ELSE [NoStatus EXCEPT !.present = TRUE, !.healthy = TRUE]
       IN hc' = [hc EXCEPT !.status = [old EXCEPT !.healthy = result.healthy],
                           !.phase = "counting"]
    /\ UNCHANGED <<ext, mgr, nstart, ncalls, srv, wrk, fifo_in, fifo_out, pc, op, loc, res>>

\* check_all from `if result.healthy:` on: consecutive_failures and last_error are
\* assigned and, for a failed probe, on_failure is called and a restart decided.
HcSetCount(t) ==
    /\ hc.thread = t /\ hc.phase = "counting"
    /\ pc[t] = "idle"
    /\ LET result == CheckOneResult(res[t])
           old == hc.status
           new == Probed(old, result)
           since == IF result.healthy THEN 0 ELSE hc.since + 1
       IN
       hc' = IF result.healthy
             THEN [hc EXCEPT !.status = new, !.since = 0, !.phase = "idle"]
             ELSE [hc EXCEPT
                     !.status = new,
                     !.since = since,
                     !.failed = @ + 1,
                     !.on_failure = @ + 1,
                     !.reported = OnFailureArg(old, new),
                     !.crossings = IF hc.auto_restart /\ since >= hc.max_failures
                                   THEN @ + 1 ELSE @,
                     !.phase = IF ShouldRestart(new) THEN "restart_due" ELSE "idle"]
    /\ UNCHANGED <<ext, mgr, nstart, ncalls, srv, wrk, fifo_in, fifo_out, pc, op, loc, res>>

\* HealthChecker.get_status(name) in another thread: it returns the HealthStatus
\* object of _status, and the caller reads healthy and consecutive_failures.
GetStatus ==
    /\ hc.status.present
    /\ hc.seen # hc.status
    /\ hc' = [hc EXCEPT !.seen = hc.status]
    /\ UNCHANGED <<ext, mgr, nstart, ncalls, srv, wrk, fifo_in, fifo_out, pc, op, loc, res>>

\* One step of check_all in thread t, statement by statement.
MonitorStatements(t) ==
    \/ CheckOne(t)
    \/ HcSetHealthy(t)
    \/ HcSetCount(t)
    \/ HcRestart(t)
    \/ HcAfterRestart(t)

\* One step of check_all in thread t.
MonitorStep(t) ==
    \/ CheckOne(t)
    \/ HcRecord(t)
    \/ HcRestart(t)
    \/ HcAfterRestart(t)

\* The host may call start() or stop(): it is not inside stop(), and has calls left.
BgCalled ==
    /\ ~hc.bg.joining
    /\ hc.bg.calls < MaxMonCalls

\* start(), `self._stop_event.clear()`: the event is cleared whatever thread may
\* still be looking at it; the value the event has afterwards.
StartClearsEvent(b) == FALSE

\* HealthChecker.start: nothing on a running checker; else _running = True, the
\* stop event is cleared, and a new thread is created and started.
BgStart ==
    /\ BgCalled
    /\ IF hc.bg.running
       THEN hc' = [hc EXCEPT !.bg.calls = @ + 1]
       ELSE \E i \in LoopIds :
              /\ hc.bg.loops[i] = "none"
              /\ \A j \in LoopIds : j < i => hc.bg.loops[j] # "none"
              /\ hc' = [hc EXCEPT !.bg.calls = @ + 1,
                                  !.bg.running = TRUE,
                                  !.bg.stop_event = StartClearsEvent(hc.bg),
                                  !.bg.thread = i,
                                  !.bg.loops[i] = "test"]
    /\ UNCHANGED <<ext, mgr, nstart, ncalls, srv, wrk, fifo_in, fifo_out, pc, op, loc, res>>

\* HealthChecker.stop up to the join: nothing on a checker that is not running;
\* else _running = False, the stop event is set, and the caller joins the thread.
BgStop ==
    /\ BgCalled
    /\ IF ~hc.bg.running
       THEN hc' = [hc EXCEPT !.bg.calls = @ + 1]
       ELSE hc' = [hc EXCEPT !.bg.calls = @ + 1,
                            !.bg.running = FALSE,
                            !.bg.stop_event = TRUE,
                            !.bg.joining = TRUE]
    /\ UNCHANGED <<ext, mgr, nstart, ncalls, srv, wrk, fifo_in, fifo_out, pc, op, loc, res>>

\* join(timeout) returns because the thread has ended; self._thread = None.
BgJoined ==
    /\ hc.bg.joining
    /\ hc.bg.thread # None /\ hc.bg.loops[hc.bg.thread] = "done"
    /\ hc' = [hc EXCEPT !.bg.joining = FALSE, !.bg.thread = None]
    /\ UNCHANGED <<ext, mgr, nstart, ncalls, srv, wrk, fifo_in, fifo_out, pc, op, loc, res>>

\* join(timeout) returns because the timeout expired: the thread is still inside
\* check_all (a probe does not return in time); self._thread = None all the same.
BgJoinTimeout ==
    /\ hc.bg.joining
    /\ hc.bg.thread # None /\ hc.bg.loops[hc.bg.thread] = "check_all"
    /\ hc' = [hc EXCEPT !.bg.joining = FALSE, !.bg.thread = None]
    /\ UNCHANGED <<ext, mgr, nstart, ncalls, srv, wrk, fifo_in, fifo_out, pc, op, loc, res>>

\* _monitoring_loop, the test `while not self._stop_event.is_set()`.
LoopTest(i) ==
    /\ hc.bg.loops[i] = "test"
    /\ hc' = [hc EXCEPT !.bg.loops[i] = IF hc.bg.stop_event THEN "done" ELSE "check_all"]
    /\ UNCHANGED <<ext, mgr, nstart, ncalls, srv, wrk, fifo_in, fifo_out, pc, op, loc, res>>

\* _monitoring_loop: check_all() returns or raises, the thread goes on to
\* self._stop_event.wait(self.interval).
LoopRound(i) ==
    /\ hc.bg.loops[i] = "check_all"
    /\ hc' = [hc EXCEPT !.bg.loops[i] = "wait"]
    /\ UNCHANGED <<ext, mgr, nstart, ncalls, srv, wrk, fifo_in, fifo_out, pc, op, loc, res>>

\* _monitoring_loop: wait(interval) returns, because the event is set or because
\* the interval has passed.
LoopWake(i) ==
    /\ hc.bg.loops[i] = "wait"
    /\ hc' = [hc EXCEPT !.bg.loops[i] = "test"]
    /\ UNCHANGED <<ext, mgr, nstart, ncalls, srv, wrk, fifo_in, fifo_out, pc, op, loc, res>>

\* What the background threads and the callers of start() and stop() do.
BackgroundStep ==
    \/ BgStart
    \/ BgStop
    \/ BgJoined
    \/ BgJoinTimeout
    \/ \E i \in LoopIds : LoopTest(i) \/ LoopRound(i) \/ LoopWake(i)

----------------------------------------------------------------------------
(* discovery/finder.py: discover_models *)

\* Bound: the largest max_depth discover_models is called with.
MaxDepth == 2

\* discover_models: the default of max_depth.
DefaultMaxDepth == 3

\* The directories of the tree that is scanned: 1 is base_dir, 2 and 4 are in it,
\* 3 is in 2 and 5 is in 4.
Dirs == 1..5
Base == 1
Parent == <<0, 1, 2, 1, 4>>

\* What find_config and load_config make of a directory: "none" there is no
\* model.yaml / model.yml / model.toml, "bad" there is one and load_config
\* raises, "a" or "b" there is one and that is the name in it.
Descriptors == {"none", "bad", "a", "b"}

\* A tree: dot[d] says that the name of directory d begins with ".", desc[d] is
\* what d holds.
EmptyTree == [dot |-> [d \in Dirs |-> FALSE], desc |-> [d \in Dirs |-> "none"]]

Trees ==
    { [dot |-> dot, desc |-> desc] :
        dot \in {f \in [Dirs -> BOOLEAN] : ~f[Base]},
        desc \in {g \in [Dirs -> Descriptors] : g[Base] \in {"none", "a"}} }

\* The proper ancestors of d up to base_dir.
RECURSIVE Ancestors(_)
Ancestors(d) == IF Parent[d] = 0 THEN {} ELSE {Parent[d]} \cup Ancestors(Parent[d])

\* dir_path.iterdir(): the directories in d, in the order the file system lists
\* them (ascending or descending by number).
IterDir(d, ascending) ==
    LET RECURSIVE From(_)
        From(c) ==
            IF c \notin Dirs THEN <<>>
            ELSE LET rest == From(IF ascending THEN c + 1 ELSE c - 1) IN
                 IF Parent[c] = d THEN <<c>> \o rest ELSE rest
    IN From(IF ascending THEN 1 ELSE 5)

\* A scan that enters every sub-directory, whatever its name.
HiddenNever(tree, d) == FALSE

\* scan_dir, the test `subdir.name.startswith(".")`.
Hidden(tree, d) == tree.dot[d]

\* scan_dir, the `return` after a config file was found in dir_path, loaded or not.
StopsAtModel(tree, d) == tree.desc[d] # "none"

\* scan_dir, the try block: the config is stored under its name unless the name
\* is there already; a config that does not load stores nothing.
Stored(models, tree, d) ==
    IF tree.desc[d] \in {"none", "bad"} \/ tree.desc[d] \in DOMAIN models
    THEN models
    ELSE [n \in DOMAIN models \cup {tree.desc[d]} |->
             IF n = tree.desc[d] THEN d ELSE models[n]]

\* scan_dir(dir_path, depth) with the closure's models dict and, for the record,
\* the set of directories scan_dir was entered for: acc = [models, visited].
RECURSIVE ScanDir(_, _, _, _, _, _, _)
ScanDir(tree, recursive, max_depth, ascending, d, depth, acc) ==
    IF depth > max_depth
    THEN acc
    ELSE LET entered == [acc EXCEPT !.visited = @ \cup {d}] IN
         IF StopsAtModel(tree, d)
         THEN [entered EXCEPT !.models = Stored(@, tree, d)]
         ELSE LET here == [entered EXCEPT !.models = Stored(@, tree, d)]
                  subdirs == IterDir(d, ascending)
                  RECURSIVE Over(_, _)
                  Over(i, a) ==
                      IF i > Len(subdirs) THEN a
                      ELSE Over(i + 1,
                                IF Hidden(tree, subdirs[i])
                                THEN a
                                ELSE ScanDir(tree, recursive, max_depth, ascending,
                                             subdirs[i], depth + 1, a))
              IN IF depth = 0 \/ recursive THEN Over(1, here) ELSE here

\* discover_models(base_dir, recursive, max_depth) before the call.
NewScan(tree, recursive, max_depth, ascending) ==
    [tree |-> tree, recursive |-> recursive, max_depth |-> max_depth,
     ascending |-> ascending,
     models |-> [n \in {} |-> 0], visited |-> {}, done |-> FALSE]

\* discover_models: models = {}, scan_dir(base_dir), return models.
DiscoverModels ==
    /\ ~scan.done
    /\ LET r == ScanDir(scan.tree, scan.recursive, scan.max_depth, scan.ascending,
                        Base, 0, [models |-> [n \in {} |-> 0], visited |-> {}])
       IN scan' = [scan EXCEPT !.models = r.models, !.visited = r.visited,
                               !.done = TRUE]
    /\ UNCHANGED <<mgr, nstart, ncalls, srv, wrk, fifo_in, fifo_out, pc, op, loc, res,
                   hc, reg, cls, io>>

----------------------------------------------------------------------------
(* The system *)

\* ModelManager.__init__; nothing started, no call made.
InitManager ==
    /\ mgr = NewManager
    /\ nstart = 0
    /\ ncalls = 0
    /\ srv = [k \in Ids |-> NewServer]
    /\ wrk = [k \in Ids |-> NewWorker]
    /\ fifo_in = [k \in Ids |-> <<>>]
    /\ fifo_out = [k \in Ids |-> <<>>]
    /\ pc = [t \in Callers |-> "idle"]
    /\ op = [t \in Callers |-> "none"]
    /\ loc = [t \in Callers |-> NewLocals]
    /\ res = [t \in Callers |-> NoResult]
    /\ io = NewIo

\* A manager, a HealthChecker with its default settings that is not used, and an
\* empty registry.
Init ==
    /\ InitManager
    /\ hc = NewChecker(1, DefaultMaxFailures, TRUE)
    /\ reg = NewRegistry
    /\ cls = NewClass(EchoClass)
    /\ scan = NewScan(EmptyTree, TRUE, DefaultMaxDepth, TRUE)

\* A host thread calls a public method of the manager, or goes on inside one.
HostStep(t) ==
    \/ StartEnter(t)
    \/ StopEnter(t)
    \/ RestartEnter(t)
    \/ RequestEnter(t)
    \/ PingEnter(t)
    \/ PingRequest(t)
    \/ ConnectIn(t)
    \/ ConnectOut(t)
    \/ IpcSend(t)
    \/ IpcRecv(t)
    \/ StopWait(t)

Next ==
    \/ \E t \in SeqCallers : HostStep(t) \/ StartFault(t)
    \/ \E k \in Ids : WorkerRun(k) \/ WorkerFault(k)

\* One host thread uses the manager (its calls do not overlap); the worker may fail.
Spec == Init /\ [][Next]_vars

\* A thread inside a method that is not blocked goes on, and so does a worker
\* process that is not blocked: the operating system schedules both.  Nothing
\* makes a host thread call again, and nothing makes a fault happen.
Progress ==
    /\ \A t \in SeqCallers : WF_vars(pc[t] # "idle" /\ HostStep(t))
    /\ \A k \in Ids : WF_vars(WorkerRun(k))

FairSpec == Spec /\ Progress

ConcNext ==
    \/ \E t \in Callers : HostStep(t)
    \/ \E k \in Ids : WorkerRun(k)

\* Several host threads use the manager at the same time; the worker does not fail.
ConcSpec == Init /\ [][ConcNext]_vars

\* A manager and a HealthChecker(managers=[manager], max_failures, auto_restart)
\* whose check_all the host thread calls.
MonInit ==
    /\ InitManager
    /\ \E mf \in 1..MaxFailures, ar \in BOOLEAN : hc = NewChecker(1, mf, ar)
    /\ reg = NewRegistry
    /\ cls = NewClass(EchoClass)
    /\ scan = NewScan(EmptyTree, TRUE, DefaultMaxDepth, TRUE)

MonNext ==
    \/ \E t \in SeqCallers : HostStep(t) \/ MonitorStep(t)
    \/ \E k \in Ids : WorkerRun(k) \/ WorkerFault(k)

\* The host thread uses the manager and runs probe rounds; the worker may fail.
MonSpec == MonInit /\ [][MonNext]_vars

\* The crash scenario: the host only starts the manager and runs probe rounds, the
\* worker's handlers return, and the one fault is the kill of the first worker.
RecoveryNext ==
    \/ \E t \in SeqCallers :
          \/ StartEnter(t)
          \/ ConnectIn(t)
          \/ ConnectOut(t)
          \/ IpcSend(t)
          \/ IpcRecv(t)
          \/ PingRequest(t)
          \/ StopWait(t)
          \/ MonitorStep(t)
    \/ \E k \in Ids :
          \/ W_Boot(k)
          \/ W_Setup(k)
          \/ W_Recv(k)
          \/ W_Serve(k)
          \/ Crash(k)

\* A thread inside a method goes on when it is not blocked, the worker runs, and
\* the monitoring loop makes its next step and, every interval, its next round.
RecoveryProgress ==
    /\ \A t \in SeqCallers :
          /\ WF_vars(pc[t] # "idle" /\ HostStep(t))
          /\ WF_vars(MonitorStep(t))
    /\ \A k \in Ids : WF_vars(WorkerRun(k))

RecoverySpec == MonInit /\ [][RecoveryNext]_vars /\ RecoveryProgress

RegNext ==
    \/ RegistryStep
    \/ StopAll
    \/ \E n \in Names : SupKilled(n)

\* One host thread uses a ModelRegistry; workers may be killed.
RegSpec == Init /\ [][RegNext]_vars

RegConcNext ==
    \/ RegistryStep
    \/ StatusBegin \/ StatusStep \/ StatusEnd
    \/ WriterStep

\* One thread uses a ModelRegistry while a second thread registers or unregisters.
RegConcSpec == Init /\ [][RegConcNext]_vars

\* A HealthChecker whose background monitoring the host starts and stops.
BgSpec == Init /\ [][BackgroundStep]_vars

MonConcNext ==
    \/ \E t \in Callers :
          \/ StartEnter(t)
          \/ RequestEnter(t)
          \/ ConnectIn(t)
          \/ ConnectOut(t)
          \/ IpcSend(t)
          \/ IpcRecv(t)
          \/ PingRequest(t)
          \/ StopWait(t)
          \/ MonitorStep(t)
    \/ \E k \in Ids :
          \/ W_Boot(k)
          \/ W_Setup(k)
          \/ W_Recv(k)
          \/ W_Eof(k)
          \/ W_Serve(k)
          \/ W_Teardown(k)

\* Host threads start the manager and send requests while the monitor thread runs
\* probe rounds; the worker's handlers return and nothing fails.
MonConcSpec == MonInit /\ [][MonConcNext]_vars

\* The hang scenario: the crash scenario, and the first worker may stop answering.
HangNext ==
    \/ RecoveryNext
    \/ \E k \in Ids : Stall(k)

HangSpec == MonInit /\ [][HangNext]_vars /\ RecoveryProgress

StatusNext ==
    \/ \E t \in SeqCallers : HostStep(t) \/ MonitorStatements(t)
    \/ \E k \in Ids : WorkerRun(k) \/ Crash(k)
    \/ GetStatus

\* The host thread uses the manager and runs probe rounds while another thread
\* calls get_status; the first worker may be killed.
StatusSpec == MonInit /\ [][StatusNext]_vars

IoNext ==
    \/ \E t \in SeqCallers :
          \/ StartEnter(t)
          \/ RequestEnter(t)
          \/ ConnectIn(t)
          \/ ConnectOut(t)
          \/ IpcSend(t)
          \/ IpcRecv(t)
    \/ \E k \in Ids : WorkerRun(k) \/ WorkerWrites(k)
    \/ ReadStderr

\* A thread inside a method goes on when it is not blocked, the worker runs when it
\* is not blocked, and so does the thread that reads its stderr.
IoProgress ==
    /\ \A t \in SeqCallers : WF_vars(pc[t] # "idle" /\ HostStep(t))
    /\ \A k \in Ids : WF_vars(WorkerRun(k) \/ WorkerWrites(k))
    /\ WF_vars(ReadStderr)

\* The host starts the manager and sends requests to a worker whose handlers write
\* lines to stdout and stderr; nothing fails.
IoSpec == Init /\ [][IoNext]_vars /\ IoProgress

\* Any tree, any arguments.
ScanInit ==
    /\ InitManager
    /\ hc = NewChecker(1, DefaultMaxFailures, TRUE)
    /\ reg = NewRegistry
    /\ cls = NewClass(EchoClass)
    /\ \E tree \in Trees, recursive \in BOOLEAN, max_depth \in 0..MaxDepth,
          ascending \in BOOLEAN :
          scan = NewScan(tree, recursive, max_depth, ascending)

ScanNext == DiscoverModels

\* discover_models is called on a directory tree.
ScanSpec == ScanInit /\ [][ScanNext]_vars

\* Any of the subclasses, not yet instantiated.
DiscoverInit ==
    /\ InitManager
    /\ hc = NewChecker(1, DefaultMaxFailures, TRUE)
    /\ reg = NewRegistry
    /\ \E declared \in Classes : cls = NewClass(declared)
    /\ scan = NewScan(EmptyTree, TRUE, DefaultMaxDepth, TRUE)

DiscoverNext == Construct

\* An instance of a subclass of ModelClient is made.
DiscoverSpec == DiscoverInit /\ [][DiscoverNext]_vars

----------------------------------------------------------------------------
(* Properties *)

\* The supervisor is Running: started, and its worker process is alive.
SupervisorRunning ==
    /\ mgr.is_started
    /\ mgr.process # None
    /\ wrk[mgr.process].st = "alive"

\* In this step thread t calls the public method o.
Calls(t, o) == pc[t] = "idle" /\ ncalls' = ncalls + 1 /\ op'[t] = o

\* Thread t is back from a call of the public method o.
Back(t, o) == pc[t] = "idle" /\ op[t] = o

\* C1: when threads call request() at the same time on a started manager whose
\* worker answers frames in arrival order, every reply a caller is handed is the
\* reply to the frame that caller sent (the worker echoes the caller's tag).
\* (The replies looked at are those of user handlers, so the frame a reply answers
\* was sent by a request() call, not by the first ping of start().)
C1_OwnReply ==
    \A t \in Callers :
        (Back(t, "request") /\ res[t].kind = "return" /\ res[t].reply.status = "")
            => res[t].reply.tag = t

\* C2: request() on a supervisor that is not Running raises at once and writes no
\* frame: ModelNotStartedError when the manager is not started (never started, or
\* stopped), ModelRequestError when it is started and its process has exited.
C2_NotRunningRaises ==
    [][\A t \in SeqCallers :
         (Calls(t, "request") /\ ~SupervisorRunning) =>
             /\ pc'[t] = "idle"
             /\ res'[t].kind = IF mgr.is_started THEN "ModelRequestError"
                                                 ELSE "ModelNotStartedError"
             /\ fifo_in' = fifo_in]_vars

\* A request() on a started manager whose process was gone has raised ModelRequestError.
C2_Witness ==
    /\ Back(1, "request")
    /\ loc[1].snap.is_started /\ ~loc[1].snap.running
    /\ res[1].kind = "ModelRequestError"

\* C3: when request() reads the worker's reply from the pipe, a reply with an
\* `error` key makes it raise ModelRequestError with that error text, and any
\* other reply is returned exactly as the worker wrote it.
C3_ReplyOrError ==
    [][\A t \in SeqCallers :
         (pc[t] = "recv" /\ op[t] = "request" /\ pc'[t] = "idle"
            /\ fifo_out[loc[t].cur] # <<>>) =>
             LET r == Head(fifo_out[loc[t].cur]) IN
             res'[t] = IF r.error # ""
                       THEN [kind |-> "ModelRequestError", reply |-> NoReply,
                             msg |-> r.error]
                       ELSE [kind |-> "return", reply |-> r, msg |-> ""]]_vars

\* A request() for a handler the worker does not know has raised with the worker's text.
C3_Witness ==
    /\ Back(1, "request")
    /\ res[1].kind = "ModelRequestError"
    /\ res[1].msg = "Unknown message type"

\* Thread t is inside start() (called directly or from restart()).
InStart(t) ==
    \/ pc[t] \in {"restart_start", "connect_in", "connect_out"}
    \/ pc[t] \in {"send", "recv"} /\ loc[t].ctx = "start"

\* C4: start() always terminates: once a thread is inside start(), it comes back
\* (with the worker running, or with ModelStartupError), also when the worker
\* exits, never opens its pipe ends or never answers the first ping.
C4_StartTerminates ==
    \A t \in SeqCallers : InStart(t) ~> (pc[t] = "idle")

\* C5: when start() raises ModelStartupError at the handshake or at the first
\* ping, the manager is not started, holds no channel, the pipe directory is gone
\* and the worker this start() spawned is not running.
C5_FailedStartTornDown ==
    \A t \in SeqCallers :
        (pc[t] = "idle" /\ op[t] \in {"start", "restart"}
           /\ res[t].kind = "ModelStartupError"
           /\ loc[t].spawned # None) =>
            /\ ~mgr.is_started
            /\ mgr.ipc = None
            /\ ~srv[loc[t].spawned].dir
            /\ wrk[loc[t].spawned].st # "alive"

\* C6: whenever stop() returns on a manager that was started, the manager is idle:
\* not started, channel and process handles cleared, both pipes closed, the pipe
\* directory removed, and the worker process no longer alive.
C6_StopLeavesIdle ==
    \A t \in SeqCallers :
        (Back(t, "stop") /\ loc[t].snap.is_started) =>
            /\ res[t] = Ok
            /\ mgr = [is_started |-> FALSE, ipc |-> None, process |-> None]
            /\ ~srv[loc[t].snap.ipc].pipe_in
            /\ ~srv[loc[t].snap.ipc].pipe_out
            /\ ~srv[loc[t].snap.ipc].dir
            /\ wrk[loc[t].snap.process].st # "alive"

\* stop() has returned on a manager whose worker was alive when it was called and
\* had to be terminated.
C6_Witness ==
    /\ Back(1, "stop")
    /\ loc[1].snap.running
    /\ wrk[loc[1].snap.process].st = "terminated"

\* stop() has returned on a manager whose worker had been killed before the call.
C6_WitnessDead ==
    /\ Back(1, "stop")
    /\ loc[1].snap.is_started /\ ~loc[1].snap.running

\* C7: a call of stop() eventually returns, also when the worker process is alive
\* and never replies to the `shutdown` frame.
C7_StopTerminates ==
    \A t \in SeqCallers :
        (op[t] = "stop" /\ pc[t] # "idle") ~> (op[t] = "stop" /\ pc[t] = "idle")

\* C8: start() on a running supervisor and stop() on a manager that is not started
\* return at once without raising, and leave the manager, the channels, the pipe
\* directories and the processes as they were.
C8_RedundantCallsNoOp ==
    [][\A t \in SeqCallers :
         (\/ Calls(t, "start") /\ SupervisorRunning
          \/ Calls(t, "stop") /\ ~mgr.is_started) =>
             /\ pc'[t] = "idle"
             /\ res'[t] = Ok
             /\ UNCHANGED <<mgr, nstart, srv, wrk, fifo_in, fifo_out>>]_vars

\* A second start() on a running supervisor has returned.
C8_Witness ==
    /\ Back(1, "start")
    /\ loc[1].snap.running
    /\ res[1] = Ok

\* stop() on a manager that had been started and stopped before has returned.
C8_WitnessStop ==
    /\ Back(1, "stop")
    /\ ~loc[1].snap.is_started
    /\ nstart > 0

\* C9: when restart() returns normally on a started manager, the previous worker
\* is not alive and its pipe directory is gone, and the manager is started with a
\* newly spawned worker on a newly created, connected channel; that worker has
\* answered a ping with pong (it is alive unless it was killed from outside since).
C9_RestartFresh ==
    \A t \in SeqCallers :
        (Back(t, "restart") /\ res[t] = Ok /\ loc[t].snap.is_started) =>
            /\ wrk[loc[t].snap.process].st # "alive"
            /\ ~srv[loc[t].snap.ipc].dir
            /\ mgr.is_started
            /\ mgr.process # None /\ mgr.process # loc[t].snap.process
            /\ mgr.ipc # None /\ mgr.ipc # loc[t].snap.ipc
            /\ mgr.process = loc[t].spawned
            /\ srv[mgr.ipc].dir /\ srv[mgr.ipc].is_connected
            /\ wrk[mgr.process].ponged
            /\ wrk[mgr.process].st \in {"alive", "killed"}

\* restart() has returned on a manager whose worker was running; the new worker runs.
C9_Witness ==
    /\ Back(1, "restart")
    /\ res[1] = Ok
    /\ loc[1].snap.running
    /\ SupervisorRunning

\* ping() returned what the claim says: a boolean, and True only if the supervisor
\* was running at the call and the worker has answered a ping with pong.
PingValue ==
    \A t \in SeqCallers :
        Back(t, "ping") =>
            /\ res[t].kind \in {"true", "false"}
            /\ res[t].kind = "true" =>
                 /\ loc[t].snap.running
                 /\ loc[t].cur # None /\ wrk[loc[t].cur].ponged

\* C10: ping() never raises and returns True exactly when the supervisor is running
\* and the worker answers the ping with pong; in every other case, an unanswered
\* ping included, it returns False: so every call of ping() comes back with a
\* boolean of that value.
C10_PingAnswers ==
    /\ []PingValue
    /\ \A t \in SeqCallers :
         (op[t] = "ping" /\ pc[t] # "idle") ~> (op[t] = "ping" /\ pc[t] = "idle")

\* ping() has returned True.
C10_WitnessTrue == Back(1, "ping") /\ res[1].kind = "true"

\* C11: every failure of request() that the channel causes comes out as
\* ModelRequestError: a request() that got as far as the channel either returns
\* the reply or raises ModelRequestError, whether the channel was not connected,
\* the worker closed its end or exited before replying, or the write failed
\* because the worker died after the liveness poll.
C11_ChannelErrorsSurface ==
    \A t \in SeqCallers :
        (Back(t, "request") /\ loc[t].snap.running) =>
            res[t].kind \in {"return", "ModelRequestError"}

\* C12: a request() that raises leaves the supervisor as it found it: the started
\* flag, the channel handle and the process handle are those of the call's entry,
\* the channel is still connected and its pipe directory still there; and when
\* the failure was an error reply of the worker, the worker is back in its
\* receive loop with both pipe ends open (unless it was killed from outside).
C12_FailedRequestKeepsSupervisor ==
    \A t \in SeqCallers :
        (Back(t, "request") /\ res[t].kind # "return") =>
            /\ mgr.is_started = loc[t].snap.is_started
            /\ mgr.ipc = loc[t].snap.ipc
            /\ mgr.process = loc[t].snap.process
            /\ loc[t].snap.is_started =>
                  /\ srv[mgr.ipc].dir
                  /\ srv[mgr.ipc].is_connected
            /\ (res[t].kind = "ModelRequestError"
                  /\ res[t].msg \in {"Unknown message type", "handler raised",
                                      "Handler argument error"}) =>
                  \/ wrk[mgr.process].st = "killed"
                  \/ /\ wrk[mgr.process].st = "alive"
                     /\ wrk[mgr.process].pc = "recv"
                     /\ wrk[mgr.process].rd /\ wrk[mgr.process].wr

\* request() has raised on the error reply of a handler that raised, and the
\* supervisor is still running.
C12_Witness ==
    /\ Back(1, "request")
    /\ res[1].kind = "ModelRequestError"
    /\ res[1].msg = "handler raised"
    /\ SupervisorRunning

\* request() has raised because the worker was gone, and the manager is still started.
C12_WitnessDead ==
    /\ Back(1, "request")
    /\ res[1].kind = "ModelRequestError"
    /\ res[1].msg = "IPC error"
    /\ mgr.is_started

\* In this step check_all takes the result of a probe that failed.
RecordsFailure(t) ==
    hc.phase = "probing" /\ hc'.phase # "probing" /\ res[t].kind # "true"

\* In this step check_all takes the result of a probe that succeeded.
RecordsSuccess(t) ==
    hc.phase = "probing" /\ hc'.phase # "probing" /\ res[t].kind = "true"

\* In this step _restart_model takes the outcome of manager.restart().
RestartComesBack == hc.phase = "restarting" /\ hc'.phase # "restarting"

C14_RestartOnlyAtThreshold ==
    /\ hc.phase \in {"restart_due", "restarting"} =>
          /\ hc.auto_restart
          /\ ~hc.status.healthy
          /\ hc.status.consecutive_failures >= hc.max_failures
          /\ hc.since >= hc.max_failures
    /\ ~hc.auto_restart => hc.restarts = 0
    /\ hc.restarts <= hc.crossings

\* With auto_restart off the failures in a row have passed max_failures and check_all
\* is done.
C14_Witness ==
    /\ ~hc.auto_restart
    /\ hc.status.consecutive_failures > hc.max_failures
    /\ hc.phase = "idle"

\* restart() has been called by the monitor after two failures in a row.
C14_WitnessRestart ==
    /\ hc.phase = "restarting" /\ hc.max_failures = 2
    /\ hc.status.consecutive_failures = 2

\* C15: consecutive_failures is the number of failed probes since the last
\* successful probe or successful restart, and healthy says whether it is 0; a
\* successful probe leaves the record at healthy, 0 failures, no last_error, a
\* failed probe adds exactly 1 and leaves it unhealthy.
C15_FailureCount ==
    /\ [](hc.status.present =>
            /\ hc.status.consecutive_failures = hc.since
            /\ hc.status.healthy <=> hc.status.consecutive_failures = 0)
    /\ [][\A t \in SeqCallers :
            /\ RecordsSuccess(t) =>
                  hc'.status = [present |-> TRUE, healthy |-> TRUE,
                                consecutive_failures |-> 0, last_error |-> ""]
            /\ RecordsFailure(t) =>
                  /\ hc'.status.consecutive_failures
                        = hc.status.consecutive_failures + 1
                  /\ ~hc'.status.healthy]_vars

\* A successful probe has cleared a record that had counted failures before.
C15_Witness ==
    /\ hc.phase = "idle" /\ hc.failed > 0
    /\ hc.status = [present |-> TRUE, healthy |-> TRUE,
                     consecutive_failures |-> 0, last_error |-> ""]
    /\ hc.restarts = 0

\* C16: on_failure is called once for every failed probe and for no other; the
\* status it is handed counts the failure just made (the k-th failure in a row is
\* reported as k); and it has been called when restart() is called for that probe.
C16_OnFailurePerFailedProbe ==
    /\ [](hc.on_failure = hc.failed)
    /\ [][\A t \in SeqCallers :
            /\ RecordsFailure(t) =>
                  /\ hc'.on_failure = hc.on_failure + 1
                  /\ hc'.reported = hc.since + 1
            /\ RecordsSuccess(t) => hc'.on_failure = hc.on_failure
            /\ hc'.restarts # hc.restarts =>
                  /\ hc.on_failure = hc.failed
                  /\ hc.reported = hc.status.consecutive_failures]_vars

\* on_failure has been called for the second failure in a row, with 2.
C16_Witness == hc.on_failure = 2 /\ hc.reported = 2 /\ hc.probes = 2

\* C17: when the restart() the monitor called raises, the status record is left
\* as it was and on_restart is not called; when it returns, on_restart is called
\* once; and a failed probe that finds the count at max_failures or more (as a
\* restart that raised leaves it) makes the monitor call restart() again.
C17_RestartFailureKeepsCount ==
    /\ [](hc.on_restart = hc.restarts_ok)
    /\ [][\A t \in SeqCallers :
            /\ (RestartComesBack /\ res[t].kind # "ok") =>
                  /\ hc'.status = hc.status
                  /\ hc'.on_restart = hc.on_restart
                  /\ hc'.restarts_ok = hc.restarts_ok
            /\ (RestartComesBack /\ res[t].kind = "ok") =>
                  /\ hc'.on_restart = hc.on_restart + 1
                  /\ hc'.restarts_ok = hc.restarts_ok + 1
            /\ (RecordsFailure(t) /\ hc.auto_restart
                   /\ hc.status.consecutive_failures >= hc.max_failures) =>
                  hc'.phase = "restart_due"]_vars

\* A restart() called by the monitor raised, the count stayed, and after the next
\* failed probe the monitor has called restart() again.
C17_Witness ==
    /\ hc.restarts = 2 /\ hc.restarts_ok = 0 /\ hc.on_restart = 0
    /\ hc.status.consecutive_failures = hc.max_failures + 1
    /\ hc.phase = "restarting"

\* The worker of the started supervisor has been killed while no start() was in
\* progress, auto_restart is on, and the run has room for the probes and the one
\* more worker that recovery takes.
CrashedMonitored ==
    /\ mgr.is_started /\ mgr.process # None
    /\ wrk[mgr.process].st = "killed"
    /\ \A t \in SeqCallers : ~InStart(t)
    /\ hc.auto_restart
    /\ hc.restarts = hc.restarts_ok /\ hc.phase \in {"idle", "probing"}
    /\ nstart < MaxStarts
    /\ hc.probes + hc.max_failures + 1 <= MaxProbes

\* C18: after the worker of a running, monitored supervisor is killed from
\* outside, with auto_restart on and max_failures = N, the monitor comes to N
\* failed probes in a row and is about to call restart(); and, the new worker
\* starting normally, on_restart has then fired exactly once more, the
\* supervisor is running on a new worker, and a following ping() has returned True.
C18_CrashRecovery ==
    \A n \in 0..MaxStarts :
        /\ (CrashedMonitored /\ hc.on_restart = n) ~>
              /\ hc.phase = "restart_due"
              /\ hc.status.consecutive_failures = hc.max_failures
              /\ hc.on_restart = n
        /\ (CrashedMonitored /\ hc.on_restart = n) ~>
              /\ hc.on_restart = n + 1
              /\ hc.restarts = n + 1
              /\ SupervisorRunning
              /\ hc.phase = "idle" /\ hc.status.healthy
              /\ \E t \in SeqCallers : Back(t, "ping") /\ res[t].kind = "true"

\* The supervisor runs again on a second worker after the first was killed, the
\* monitor has restarted it once after two failed probes and has probed it since.
C18_Witness ==
    /\ wrk[1].st = "killed"
    /\ SupervisorRunning /\ mgr.process = 2
    /\ hc.max_failures = 2 /\ hc.failed = 2
    /\ hc.on_restart = 1 /\ hc.restarts = 1
    /\ Back(1, "ping") /\ res[1].kind = "true"

\* In this step unregister(n) is called (and returns or raises).
Unregisters(n) ==
    /\ reg'.ncalls = reg.ncalls + 1
    /\ reg'.call.op = "none"
    /\ reg'.last.op = "unregister" /\ reg'.last.name = n

\* C19: unregister(x) of a registered x whose supervisor was never started or is
\* running leaves x in neither map and x's worker process not alive; unregister
\* of a name that is not registered raises KeyError and changes nothing.
C19_UnregisterRemoves ==
    [][\A n \in Names :
         Unregisters(n) =>
             IF n \in Keys(reg.managers)
             THEN (reg.sup[n] = NewSup \/ SupIsRunning(reg.sup[n])) =>
                      /\ reg'.last.kind = "ok"
                      /\ n \notin Keys(reg'.managers)
                      /\ n \notin reg'.configs
                      /\ reg'.sup[n].worker # "alive"
             ELSE /\ reg'.last.kind = "KeyError"
                  /\ reg'.managers = reg.managers
                  /\ reg'.configs = reg.configs
                  /\ reg'.sup = reg.sup]_vars

\* A running model has been unregistered: it is in neither map, its worker is gone.
C19_Witness ==
    /\ reg.last.op = "unregister" /\ reg.last.kind = "ok" /\ reg.last.name = 1
    /\ 1 \notin Keys(reg.managers) /\ 1 \notin reg.configs
    /\ reg.sup[1].worker = "dead" /\ ~reg.sup[1].is_started
    /\ Keys(reg.managers) = {2}

\* unregister of a name that is not registered has raised KeyError.
C19_WitnessUnknown ==
    /\ reg.last.op = "unregister" /\ reg.last.kind = "KeyError"
    /\ reg.managers # <<>>

\* The same for every state of x's supervisor.  This one does not hold: after a
\* start() that raised and left its worker alive (see C5) the supervisor is not
\* running, unregister does not stop it, and the worker stays.
UnregisterAnyState ==
    [][\A n \in Names :
         (Unregisters(n) /\ n \in Keys(reg.managers)) =>
             reg'.sup[n].worker # "alive"]_vars

\* C20: start_all goes through the whole registry whatever start() does: when it
\* returns, the map it returns has an entry for every registered name and no
\* other; start() was called on the managers that were not running at their turn,
\* in registration order; the entry is the exception where start() raised (that
\* manager is not started) and None where it did not (that manager is started).
C20_StartAllNeverAborts ==
    (reg.call.op = "none" /\ reg.last.op = "start_all") =>
        LET r == reg.last IN
        /\ \A n \in Names : r.results[n] # "absent" <=> n \in Keys(reg.managers)
        /\ r.attempts = SelectSeq(reg.managers, LAMBDA n : n \notin r.skipped)
        /\ \A n \in Keys(reg.managers) :
              /\ r.results[n] \in {"None", "ModelStartupError"}
              /\ r.results[n] = "ModelStartupError" =>
                    /\ n \in Keys(r.attempts)
                    /\ ~reg.sup[n].is_started
              /\ r.results[n] = "None" => reg.sup[n].is_started

\* start_all has returned with the exception of the model registered first and
\* None for the model registered second, which it started after that failure.
C20_Witness ==
    /\ reg.call.op = "none" /\ reg.last.op = "start_all"
    /\ reg.managers = <<2, 1>>
    /\ reg.last.results[2] = "ModelStartupError"
    /\ reg.last.results[1] = "None"
    /\ reg.last.attempts = <<2, 1>>
    /\ SupIsRunning(reg.sup[1])

\* C27: the built-in handlers cannot be overridden: whatever methods a subclass
\* declares with @handler or the handle_ prefix, after _discover_handlers the
\* names ping and shutdown are in the table and dispatch to ModelClient's own
\* handle_ping and handle_shutdown.
C27_BuiltinsKept ==
    cls.discovered =>
        /\ "ping" \in DOMAIN cls.handlers
        /\ "shutdown" \in DOMAIN cls.handlers
        /\ cls.handlers["ping"] = "builtin_ping"
        /\ cls.handlers["shutdown"] = "builtin_shutdown"

\* The part of C27 the code keeps: ping and shutdown are always in the table, and a
\* decorated method that sorts before handle_ping does not displace the built-in.
BuiltinsPresent ==
    cls.discovered =>
        /\ {"ping", "shutdown"} \subseteq DOMAIN cls.handlers
        /\ cls.declared = {Method("check", 1, "ping", "", "user_check")} =>
              cls.handlers["ping"] = "builtin_ping"

\* The reply the worker k writes in this step, NoReply when it writes none.
Written(k) ==
    IF Len(fifo_out'[k]) = Len(fifo_out[k]) + 1
    THEN fifo_out'[k][Len(fifo_out'[k])]
    ELSE NoReply

\* Worker k is done with the frame it read: it goes back to receive() or leaves
\* the loop, and was neither killed from outside nor stuck in the handler.
Answered(k) ==
    /\ wrk[k].pc = "handle"
    /\ wrk'[k].pc \in {"recv", "teardown"}

\* C22: for every frame the worker loop reads, the worker writes exactly one reply
\* before it reads the next frame or exits, whatever the handler returns: a reply
\* is written only for a frame in hand, and a worker that is done with a frame
\* while the supervisor still holds the read end has written one reply to it.
C22_ExactlyOneReply ==
    [][\A k \in Ids :
         /\ fifo_out'[k] # fifo_out[k] /\ Len(fifo_out'[k]) > Len(fifo_out[k]) =>
               wrk[k].pc = "handle"
         /\ (Answered(k) /\ srv[k].pipe_out) =>
               /\ fifo_out'[k] = Append(fifo_out[k], Written(k))
               /\ Written(k).tag = wrk[k].cur.tag]_vars

\* The part of C22 the code keeps: the worker never writes two replies to one
\* frame, and never writes without a frame in hand.
AtMostOneReply ==
    [][\A k \in Ids :
         fifo_out'[k] # fifo_out[k] =>
            \/ fifo_out[k] # <<>> /\ fifo_out'[k] = Tail(fifo_out[k])
            \/ wrk[k].pc = "handle" /\ wrk'[k].pc # "handle"
                  /\ fifo_out'[k] = Append(fifo_out[k], Written(k))]_vars

\* C23: whenever a handler raises, whatever the exception, the worker replies with
\* an error envelope that carries the message and a traceback, does not exit, and
\* is back in receive() for the next request.
C23_HandlerErrorEnvelope ==
    [][\A k \in Ids :
         (Answered(k) /\ Written(k).error \in {"handler raised", "Handler argument error"}) =>
            /\ Written(k).traceback
            /\ wrk'[k].st = "alive"
            /\ wrk'[k].pc = "recv"]_vars

\* The part of C23 the code keeps: after any error reply the worker is alive and
\* back in receive().
HandlerErrorKeepsServing ==
    [][\A k \in Ids :
         (Answered(k) /\ Written(k).error # "") =>
            wrk'[k].st = "alive" /\ wrk'[k].pc = "recv" /\ wrk'[k].rd /\ wrk'[k].wr]_vars

\* C24: a request that names no registered handler is answered with "Unknown
\* message type" and the list of every registered name, ping and shutdown among
\* them, whatever the handlers of the class would do; the worker stays in its
\* loop; and request() raises ModelRequestError with that message.
C24_UnknownMessage ==
    /\ [][\A k \in Ids :
            (Answered(k) /\ wrk[k].cur.message \notin WorkerHandlers
               /\ srv[k].pipe_out) =>
               /\ fifo_out'[k] = Append(fifo_out[k],
                      Reply("", "Unknown message type", wrk[k].cur.tag, FALSE,
                            WorkerHandlers))
               /\ {"ping", "shutdown"} \subseteq Written(k).available
               /\ wrk'[k].st = "alive" /\ wrk'[k].pc = "recv"
               /\ wrk'[k].rd /\ wrk'[k].wr
               /\ wrk'[k].su = wrk[k].su /\ wrk'[k].td = wrk[k].td]_vars
    /\ [][\A t \in SeqCallers :
            (pc[t] = "recv" /\ loc[t].ctx = "request" /\ op[t] = "request"
               /\ loc[t].msg \notin WorkerHandlers
               /\ pc'[t] = "idle" /\ fifo_out' # fifo_out) =>
               res'[t] = Raised("ModelRequestError", "Unknown message type")]_vars

\* request("nosuch") has raised on the worker's reply and the worker is waiting
\* for the next frame.
C24_Witness ==
    /\ Back(1, "request")
    /\ loc[1].msg = "nosuch"
    /\ res[1] = Raised("ModelRequestError", "Unknown message type")
    /\ SupervisorRunning
    /\ wrk[mgr.process].pc = "recv"

\* C25: on a shutdown frame the worker sends {"status": "shutting_down"} and
\* leaves the loop without reading another frame; from there it only runs
\* teardown() and exits with its pipe ends closed (unless it is killed or
\* teardown() never returns).
C25_ShutdownLeavesLoop ==
    /\ [][\A k \in Ids :
            (wrk[k].pc = "handle" /\ wrk[k].cur.message = "shutdown"
               /\ wrk'[k] # wrk[k] /\ wrk'[k].st = "alive" /\ wrk'[k].pc # "hung") =>
               /\ wrk'[k].pc = "teardown"
               /\ fifo_in'[k] = fifo_in[k]
               /\ srv[k].pipe_out =>
                     fifo_out'[k] = Append(fifo_out[k],
                        Reply("shutting_down", "", wrk[k].cur.tag, FALSE, {}))]_vars
    /\ [][\A k \in Ids :
            (wrk[k].pc = "teardown" /\ wrk'[k] # wrk[k]) =>
               /\ wrk'[k].pc \in {"dead", "hung"}
               /\ Len(fifo_in'[k]) >= Len(fifo_in[k])
               /\ \/ fifo_out'[k] = fifo_out[k]
                  \/ fifo_out[k] # <<>> /\ fifo_out'[k] = Tail(fifo_out[k])
               /\ wrk'[k].st = "exited" =>
                     /\ wrk'[k].td = wrk[k].td + 1
                     /\ ~wrk'[k].rd /\ ~wrk'[k].wr]_vars

\* A worker that answered a shutdown frame has exited after one teardown(), and
\* its reply is what the supervisor's stop() read.
C25_Witness ==
    /\ Back(1, "stop")
    /\ \E k \in Ids :
          /\ wrk[k].st = "exited" /\ wrk[k].ponged
          /\ wrk[k].su = 1 /\ wrk[k].td = 1
          /\ fifo_in[k] = <<>> /\ fifo_out[k] = <<>>

\* C26: in every run of the worker setup() is called once, after both pipes are
\* open and before the first frame is dispatched; frames are dispatched only
\* between the return of setup() and the exit of the loop; and a worker that
\* exits after setup() was called has called teardown() exactly once.
C26_SetupTeardownOnce ==
    \A k \in Ids :
        /\ wrk[k].su <= 1 /\ wrk[k].td <= 1
        /\ wrk[k].pc \in {"none", "boot", "open_in", "open_out"} =>
              wrk[k].su = 0 /\ wrk[k].td = 0
        /\ wrk[k].pc = "setup" =>
              wrk[k].rd /\ wrk[k].wr /\ wrk[k].su = 0 /\ wrk[k].td = 0
        /\ wrk[k].pc \in {"recv", "handle"} =>
              wrk[k].rd /\ wrk[k].wr /\ wrk[k].su = 1 /\ wrk[k].td = 0
        /\ wrk[k].pc = "teardown" => wrk[k].su = 1 /\ wrk[k].td = 0
        /\ wrk[k].td = 1 => wrk[k].pc \in {"dead", "hung"}
        /\ (wrk[k].st = "exited" /\ wrk[k].su = 1) => wrk[k].td = 1

\* A worker whose setup() raised has exited after its one teardown().
C26_Witness ==
    \E k \in Ids :
        /\ wrk[k].st = "exited" /\ ~wrk[k].ponged
        /\ wrk[k].su = 1 /\ wrk[k].td = 1

\* A worker that served a request has exited at end-of-stream after its one
\* teardown().
C26_WitnessServed ==
    \E k \in Ids :
        /\ wrk[k].st = "exited" /\ wrk[k].ponged
        /\ wrk[k].su = 1 /\ wrk[k].td = 1
        /\ mgr.process # k

\* Thread u is inside start() on a supervisor it found not started.
Starting(u) == pc[u] # "idle" /\ op[u] = "start" /\ loc[u].ctx = "start"

\* C28: when two threads call start() on the same not-yet-started supervisor at
\* the same time, one worker is spawned and one pipe directory made: a start()
\* that arrives while another is in progress creates nothing, and no worker is
\* alive that the supervisor does not reference.
C28_ConcurrentStartOnce ==
    /\ [][\A t \in Callers :
            (Calls(t, "start") /\ \E u \in Callers \ {t} : Starting(u)) =>
               /\ nstart' = nstart
               /\ srv' = srv
               /\ wrk' = wrk]_vars
    /\ []((\A t \in Callers : Back(t, "start")) /\ ncalls = 2 =>
            \A k \in Ids : Alive(k) => mgr.process = k)

\* Two start() calls that do not overlap spawn one worker: the second finds the
\* supervisor started.
SequentialStartOnce ==
    [][\A t \in Callers :
         (Calls(t, "start") /\ mgr.is_started) => nstart' = nstart]_vars

\* start() (or the start() inside restart()) of thread t has ended because the
\* worker process could not be created.
SpawnFailure(t) ==
    /\ pc[t] = "idle" /\ op[t] \in {"start", "restart"}
    /\ res[t].msg \in {"venv not found", "spawn failed"}

\* C30: a spawn failure during start() is reported as ModelStartupError and leaves
\* no residue: no pipe directory remains, the supervisor holds no channel handle
\* and no process handle, and it is not started.
C30_SpawnFailureNoResidue ==
    \A t \in SeqCallers :
        SpawnFailure(t) =>
            /\ res[t].kind = "ModelStartupError"
            /\ mgr = CleanupMgr
            /\ \A k \in Ids : ~srv[k].dir

\* The part of C30 the code keeps: a missing venv is reported as ModelStartupError
\* before anything is created, and no spawn failure leaves the supervisor started
\* or with a process handle.
NoVenvNoResidue ==
    \A t \in SeqCallers :
        SpawnFailure(t) =>
            /\ ~mgr.is_started /\ mgr.process = None
            /\ res[t].msg = "venv not found" =>
                  /\ res[t].kind = "ModelStartupError"
                  /\ mgr.ipc = None \/ mgr.ipc = loc[t].snap.ipc

\* The monitoring threads that have not left _monitoring_loop.
LiveLoops == {i \in LoopIds : hc.bg.loops[i] \in {"test", "check_all", "wait"}}

\* C29: across any sequence of start() and stop() calls at most one monitoring
\* thread goes on probing: start() on a running checker creates no thread, and
\* only the thread the checker holds, on a running checker, begins a probe round
\* (a thread that outlived a timed-out join finishes its round and ends).
C29_OneMonitoringLoop ==
    /\ [][(hc.bg.running /\ hc'.bg.calls = hc.bg.calls + 1 /\ hc'.bg.running) =>
             hc'.bg.loops = hc.bg.loops]_vars
    /\ [][\A i \in LoopIds :
            (hc.bg.loops[i] = "test" /\ hc'.bg.loops[i] = "check_all") =>
               hc.bg.running /\ hc.bg.thread = i]_vars

\* The part of C29 the code keeps: start() on a running checker changes nothing,
\* and a thread that finds the stop event set ends without another round.
StartOnRunningCreatesNothing ==
    /\ [][(hc.bg.running /\ hc'.bg.calls = hc.bg.calls + 1 /\ hc'.bg.running) =>
             hc'.bg = [hc.bg EXCEPT !.calls = @ + 1]]_vars
    /\ [][\A i \in LoopIds :
            (hc.bg.loops[i] = "test" /\ hc.bg.stop_event /\ hc'.bg.loops[i] # "test") =>
               hc'.bg.loops[i] = "done"]_vars

\* C21: start_all and status, running while another thread registers or
\* unregisters, never fail because the map changed during the iteration and
\* never find a name in _managers that _configs does not have.
C21_IterationSafe ==
    reg.last.op \in {"start_all", "status"} =>
        reg.last.kind \notin {"RuntimeError", "KeyError"}

\* Directory d lies below a directory whose name begins with ".", or is one.
UnderHidden(d) == \E a \in (Ancestors(d) \cup {d}) \ {Base} : scan.tree.dot[a]

\* Directory d lies below a directory that holds a descriptor.
UnderModel(d) == \E a \in Ancestors(d) : scan.tree.desc[a] # "none"

\* C32: discovery never enters a sub-directory whose name begins with "." and
\* never scans below a directory that holds a descriptor, loadable or not; so no
\* descriptor under a dot-prefixed directory or under another model's directory
\* is returned.
C32_DiscoverySkips ==
    scan.done =>
        /\ \A d \in scan.visited : ~UnderHidden(d) /\ ~UnderModel(d)
        /\ \A n \in DOMAIN scan.models :
              ~UnderHidden(scan.models[n]) /\ ~UnderModel(scan.models[n])

\* A scan has returned the one model of a tree that also holds a descriptor
\* below a dot-prefixed directory and one below that model's directory.
C32_Witness ==
    /\ scan.done /\ scan.recursive /\ scan.max_depth = 2
    /\ scan.tree.dot[2] /\ scan.tree.desc[2] = "none" /\ scan.tree.desc[3] = "a"
    /\ scan.tree.desc[4] = "b" /\ scan.tree.desc[5] = "a" /\ ~scan.tree.dot[5]
    /\ scan.visited = {1, 4}
    /\ DOMAIN scan.models = {"b"}

\* A scan has passed over a descriptor that does not load and has not looked
\* below it.
C32_WitnessBad ==
    /\ scan.done /\ scan.recursive /\ scan.max_depth = 2
    /\ scan.tree.desc[4] = "bad" /\ scan.tree.desc[5] = "b" /\ ~scan.tree.dot[5]
    /\ 4 \in scan.visited /\ 5 \notin scan.visited
    /\ "b" \notin DOMAIN scan.models

\* C31: the captured stderr lines are a bounded ring: however many lines the
\* worker writes to stderr, the manager never retains more than the fixed number
\* of lines it quotes.
C31_StderrRingBounded == io.stderr_output <= StderrTail

\* Thread t has sent a request frame and waits for the reply.
AwaitsReply(t) == pc[t] = "recv" /\ loc[t].ctx = "request"

\* C40: a worker whose handlers keep writing lines to stdout or stderr is never
\* blocked forever by its own output: every request it was sent is answered.
C40_OutputNeverBlocks == \A t \in SeqCallers : AwaitsReply(t) ~> pc[t] = "idle"

\* A HealthStatus record as check_all leaves it at the end of a probe: healthy
\* exactly when no failure is counted.
Settled(st) == st.healthy <=> st.consecutive_failures = 0

\* C33: a thread that calls get_status while the monitor is inside a probe round
\* never finds healthy = true with consecutive_failures > 0, nor healthy = false
\* with consecutive_failures = 0.
C33_StatusAtomic == hc.seen.present => Settled(hc.seen)

\* Between two statements of check_all and of _restart_model the record is settled.
StatusSettledBetweenRounds == (hc.status.present /\ hc.phase # "counting") => Settled(hc.status)

\* C34: start() is a no-op only on a running supervisor: called on a manager that
\* was started and whose worker process has died since, it spawns a new worker or
\* raises; it does not return normally without having spawned one.
C34_StartNoOpOnlyWhenRunning ==
    [][\A t \in SeqCallers :
         (Calls(t, "start") /\ mgr.is_started /\ ~SupervisorRunning) =>
             ~(pc'[t] = "idle" /\ res'[t] = Ok /\ nstart' = nstart)]_vars

\* The same for start_all: the entry of a model is None only if that model is
\* running when its turn of the loop is over.
StartAllNoneMeansRunning ==
    [][\A n \in Names :
         (reg.call.op = "start_all" /\ reg'.call.op = "start_all"
          /\ reg.call.results[n] # "None" /\ reg'.call.results[n] = "None") =>
             SupIsRunning(reg'.sup[n])]_vars

\* The monitored worker is alive and will not answer the ping frame it has read.
HungUnderProbe ==
    /\ hc.phase = "probing"
    /\ mgr.process # None
    /\ wrk[mgr.process].st = "alive" /\ wrk[mgr.process].pc = "hung"

\* C35: ping() comes back even when the worker is alive and never answers: a
\* probe of the monitor that was begun is recorded, and a hung worker under probe
\* is counted as failed.
C35_PingTimesOut ==
    /\ hc.phase = "probing" ~> hc.phase # "probing"
    /\ HungUnderProbe ~> hc.status.consecutive_failures > 0

\* Probes of a worker that answers, or of one that is gone, are all recorded.
ProbesOfAnsweringWorkerEnd ==
    (hc.phase = "probing" /\ \A k \in Ids : wrk[k].pc # "hung") ~>
        (hc.phase # "probing" \/ \E k \in Ids : wrk[k].pc = "hung")

\* In this step the monitor records the probe it began on a running supervisor,
\* whose worker is alive still.
RecordsProbeOfHealthy ==
    /\ hc.phase = "probing" /\ hc'.phase # "probing"
    /\ loc[hc.thread].snap.running
    /\ SupervisorRunning

\* C36: a healthy worker is never restarted by the monitor: a probe of a running
\* supervisor whose worker is alive and answers every ping frame with pong is not
\* recorded as a failure and leads to no restart, also when host threads send
\* requests at the same time.
C36_HealthyNeverRestarted ==
    [][RecordsProbeOfHealthy =>
         /\ hc'.failed = hc.failed
         /\ hc'.phase # "restart_due"]_vars

\* C38: a request() that runs while another thread stops or restarts the manager
\* returns the reply to its own frame or raises ModelNotStartedError or
\* ModelRequestError: it fails with no other error and returns no reply that
\* belongs to another frame.
C38_RequestDuringStop ==
    \A t \in Callers :
        Back(t, "request") =>
            \/ res[t].kind = "return" /\ res[t].reply.tag = t
            \/ res[t].kind \in {"ModelNotStartedError", "ModelRequestError"}

\* A request() came back with the AttributeError of a channel handle that was
\* cleared after its checks.
RequestOnClearedChannel ==
    \E t \in Callers : Back(t, "request") /\ res[t].kind = "AttributeError"

\* In this step stop_all is called and returns.
StopsAll ==
    /\ reg'.ncalls = reg.ncalls + 1
    /\ reg'.call.op = "none"
    /\ reg'.last.op = "stop_all"

\* C37: registry teardown releases every channel: after unregister(x) the
\* supervisor of x, and after stop_all every registered supervisor, holds no
\* channel handle and no pipe directory, also when it was started and its worker
\* process had died before the call.
C37_TeardownReleasesChannels ==
    [][/\ \A n \in Names :
            (Unregisters(n) /\ n \in Keys(reg.managers)) => ~reg'.sup[n].ipc
       /\ StopsAll => \A n \in Keys(reg.managers) : ~reg'.sup[n].ipc]_vars

\* For supervisors that are running or not started at the call, it does.
TeardownOfRunningReleases ==
    [][/\ \A n \in Names :
            (Unregisters(n) /\ n \in Keys(reg.managers)
             /\ (SupIsRunning(reg.sup[n]) \/ ~reg.sup[n].is_started)) => ~reg'.sup[n].ipc
       /\ StopsAll =>
            \A n \in Keys(reg.managers) :
                (SupIsRunning(reg.sup[n]) \/ ~reg.sup[n].is_started) => ~reg'.sup[n].ipc]_vars

\* Thread t is inside NamedPipeServer.connect on channel k and worker k is inside
\* NamedPipeClient.connect.
BothConnecting(t, k) ==
    /\ pc[t] \in {"connect_in", "connect_out"}
    /\ mgr.ipc = k
    /\ Alive(k) /\ wrk[k].pc \in {"open_in", "open_out"}

\* Both connect calls have returned: the four opens are done.
BothConnected(k) == srv[k].is_connected /\ wrk[k].rd /\ wrk[k].wr

\* C39: the handshake cannot deadlock: the two sides open the FIFOs in the same
\* order, so they never wait in opens of different FIFOs, and whenever both are
\* inside connect both opens of both sides return and both channels are connected.
C39_HandshakeCompletes ==
    \A t \in SeqCallers, k \in Ids :
        /\ [](BothConnecting(t, k) =>
                 (pc[t] = "connect_in" <=> wrk[k].pc = "open_in"))
        /\ BothConnecting(t, k) ~> BothConnected(k)

\* Supervisor and first worker are through connect; the first ping is not sent yet.
C39_Witness == pc[1] = "send" /\ loc[1].ctx = "start" /\ BothConnected(1) /\ fifo_in[1] = <<>>

====
